---- MODULE Spec2Model ----
(***************************************************************************)
(* State-machine model of ruh-backend/app/services/vector_store.py:        *)
(* the VectorStore class (in-memory vectors / metadata / index plus the    *)
(* three persisted artifacts vectors.npy, metadata.json, index.json).      *)
(*                                                                         *)
(* Python values are encoded as follows.                                   *)
(*   numpy array  : [none, width, rows]; none = TRUE is Python's None,     *)
(*                  width is shape[1], rows the sequence of row vectors    *)
(*   dict         : a function whose DOMAIN is the set of keys             *)
(*   list         : a sequence; Python's 0-based position i is i + 1 here  *)
(*   dict object  : a cell [ref, val]; ref = 0 is an object owned by the   *)
(*                  store alone (val is its content), ref = k > 0 is the   *)
(*                  caller-owned dict object k whose content is shared[k]  *)
(*   float score  : cosine similarity in hundredths (0.96 is 96); the      *)
(*                  vectors are drawn from sets with integral norms, for   *)
(*                  which the quotient is exact                            *)
(*   timestamps   : datetime.now() is the logical clock                    *)
(***************************************************************************)
EXTENDS Integers, Sequences, FiniteSets, TLC

VARIABLES
    vectors,        \* self.vectors
    metadata,       \* self.metadata
    index,          \* self.index
    dimension,      \* self.dimension
    vectors_file,   \* the artifact vectors.npy
    metadata_file,  \* the artifact metadata.json
    index_file,     \* the artifact index.json
    shared,         \* caller-owned dict objects that were or may be passed in
    clock,          \* datetime.now()
    last,           \* the last call: its name, arguments, result
    lock,           \* self._lock, the store's threading.RLock
    frame,          \* per thread: the method it is inside, and where
    embedding_service,     \* VerseService.embedding_service
    vector_store_manager,  \* VerseService.vector_store_manager
    verse_store,           \* VerseService.verse_store
    objects,        \* how many objects of each class were constructed
    embeddings,     \* the model and verse embeddings of the EmbeddingService
    qdrant,         \* the Qdrant collection behind app.core.qdrant_client
    wellness_service  \* WellnessService: _instance, _initialized, the instance's db

vars == <<vectors, metadata, index, dimension, vectors_file, metadata_file,
          index_file, shared, clock, last, lock, frame, embedding_service,
          vector_store_manager, verse_store, objects, embeddings, qdrant,
          wellness_service>>

store == <<vectors, metadata, index, dimension>>

disk == <<vectors_file, metadata_file, index_file>>

threads == <<lock, frame>>

service == <<embedding_service, vector_store_manager, verse_store, objects,
            embeddings, qdrant>>

-----------------------------------------------------------------------------
(* Bounds of the model. *)

\* rows of self.vectors, and so of one add_vectors batch
MaxRows == 2

\* readings of datetime.now() (by add_vectors and update_metadata) in one run
MaxClock == 2

\* caller-owned dict objects that may be passed to update_metadata repeatedly
NumShared == 1

\* request-handling threads
NumThreads == 2

-----------------------------------------------------------------------------
(* Python values. *)

\* self.dimension = None
NoneDim == 0

NoneArr == [none |-> TRUE, width |-> 0, rows |-> <<>>]

Arr(w, rows) == [none |-> FALSE, width |-> w, rows |-> rows]

EmptyDict == [k \in {} |-> 0]

\* d[k] = v
DictSet(d, k, v) == [x \in (DOMAIN d) \cup {k} |-> IF x = k THEN v ELSE d[x]]

\* a dict object owned by the store alone
Own(d) == [ref |-> 0, val |-> d]

\* the caller's dict object k
Ref(k) == [ref |-> k, val |-> EmptyDict]

\* the content of a dict object
Deref(cell, sh) == IF cell.ref = 0 THEN cell.val ELSE sh[cell.ref]

\* the list of contents of a list of dict objects
Contents(md, sh) == [i \in 1..Len(md) |-> Deref(md[i], sh)]

\* sequence s without its element at 0-based position idx
RemoveAt(s, idx) == [i \in 1..(Len(s) - 1) |-> IF i <= idx THEN s[i] ELSE s[i + 1]]

\* a store as one value
StoreRec(v, m, ix, d) == [vectors |-> v, metadata |-> m, index |-> ix, dimension |-> d]

\* the fields set by __init__ before it calls load()
EmptyStore == StoreRec(NoneArr, <<>>, EmptyDict, NoneDim)

\* the three artifacts as one value
DiskRec(vf, mf, xf) == [vectors_file |-> vf, metadata_file |-> mf, index_file |-> xf]

\* a file that does not exist
NoFile == [exists |-> FALSE, data |-> <<>>]

File(d) == [exists |-> TRUE, data |-> d]

\* a call's outcome: a returned value or a raised exception
Returned(v) == [exc |-> "", ret |-> v]

Raised(e) == [exc |-> e, ret |-> <<>>]

-----------------------------------------------------------------------------
(* Inputs. *)

\* The verses a caller embeds and adds (initialize_embeddings.py): verse k has
\* the embedding Corpus[k]; every norm is an integer. The last verse was embedded
\* by a model of another dimension.
Corpus == << <<3, 4>>, <<0, 0>>, <<1>> >>

Widths == {Len(Corpus[k]) : k \in 1..Len(Corpus)}

\* the metadata dict the caller passes for verse k
VerseMeta(k) == [verse_number |-> k]

\* ids=None
NoIds == [none |-> TRUE, seq |-> <<>>]

Ids(s) == [none |-> FALSE, seq |-> s]

\* f"verse_{n}"
AutoId(n) == "verse_" \o ToString(n)

\* ids = [f"verse_{meta['verse_number']}" for meta in metadata]
CallerIds(metas) == Ids([i \in 1..Len(metas) |-> AutoId(metas[i]["verse_number"])])

\* a batch: verses first .. first + n - 1, with or without the caller's ids
Batch(first, n, withIds) ==
    LET metas == [i \in 1..n |-> VerseMeta(first + i - 1)]
    IN  [vectors |-> [i \in 1..n |-> Corpus[first + i - 1]],
         width |-> Len(Corpus[first]),
         metadata |-> metas,
         ids |-> IF withIds THEN CallerIds(metas) ELSE NoIds]

\* the batches of at most n rows a caller passes to add_vectors
Batches(n) ==
    {Batch(first, m, withIds) :
        <<first, m, withIds>> \in
            {x \in (1..Len(Corpus)) \X (1..n) \X BOOLEAN :
                \A i \in 0..(x[2] - 1) :
                    /\ x[1] + i <= Len(Corpus)
                    /\ Len(Corpus[x[1] + i]) = Len(Corpus[x[1]])}}

\* new_metadata dicts a caller supplies to update_metadata
NewMetas == {[id |-> "verse_0", added_at |-> 0, note |-> "n"]}

\* query vectors by width; every norm is an integer
Queries(w) == IF w = 1 THEN {<<1>>} ELSE {<<4, 3>>, <<-3, -4>>, <<0, 0>>}

\* min_similarity, in hundredths
MinSims == {0, 99}

TopKs == {1, 2}

\* every id a call may name
AllIds == {AutoId(n) : n \in 0..Len(Corpus)}

-----------------------------------------------------------------------------
(* VectorStore.add_vectors *)

\* ids = [f"verse_{start_idx + i}" for i in range(len(vectors))]
GenerateIds(start_idx, n) == [i \in 1..n |-> AutoId(start_idx + i - 1)]

\* the loop over zip(metadata, ids), from its i-th pair on
RECURSIVE AddLoop(_, _, _, _, _, _)
AddLoop(md, ix, metas, ids, i, now) ==
    IF i > Len(metas) \/ i > Len(ids) THEN [metadata |-> md, index |-> ix]
    ELSE LET meta_with_timestamp ==
                 DictSet(DictSet(metas[i], "added_at", now), "id", ids[i])
             md1 == Append(md, Own(meta_with_timestamp))
         IN  AddLoop(md1, DictSet(ix, ids[i], Len(md1) - 1), metas, ids, i + 1, now)

\* the store after the dimension check has passed: rows stacked, then the loop
AddAccepted(st, vecs, w, metas, ids, now) ==
    LET v1  == IF st.vectors.none THEN Arr(w, vecs)
               ELSE Arr(st.vectors.width, st.vectors.rows \o vecs)
        d1  == IF st.vectors.none THEN w ELSE st.dimension
        ids1 == IF ids.none THEN GenerateIds(Len(st.metadata), Len(vecs)) ELSE ids.seq
        lp  == AddLoop(st.metadata, st.index, metas, ids1, 1, now)
        n   == IF Len(metas) < Len(ids1) THEN Len(metas) ELSE Len(ids1)
    IN  [out |-> Returned(SubSeq(ids1, 1, n)),
         store |-> StoreRec(v1, lp.metadata, lp.index, d1)]

\* a variant that runs the metadata loop before the dimension check
AddVectorsLateCheck(st, vecs, w, metas, ids, now) ==
    IF Len(vecs) # Len(metas) THEN [out |-> Raised("ValueError"), store |-> st]
    ELSE IF ~st.vectors.none /\ w # st.dimension
         THEN LET ids1 == IF ids.none THEN GenerateIds(Len(st.metadata), Len(vecs))
                          ELSE ids.seq
                  lp == AddLoop(st.metadata, st.index, metas, ids1, 1, now)
              IN  [out |-> Raised("ValueError"),
                   store |-> StoreRec(st.vectors, lp.metadata, lp.index, st.dimension)]
         ELSE AddAccepted(st, vecs, w, metas, ids, now)

\* add_vectors(vectors, metadata, ids); w is vectors.shape[1]
AddVectors(st, vecs, w, metas, ids, now) ==
    IF Len(vecs) # Len(metas) THEN [out |-> Raised("ValueError"), store |-> st]
    ELSE IF ~st.vectors.none /\ w # st.dimension
         THEN [out |-> Raised("ValueError"), store |-> st]
         ELSE AddAccepted(st, vecs, w, metas, ids, now)

-----------------------------------------------------------------------------
(* VectorStore.search *)

RECURSIVE Dot(_, _)
\* np.dot of two vectors of one width
Dot(a, b) == IF Len(a) = 0 THEN 0 ELSE a[1] * b[1] + Dot(Tail(a), Tail(b))

\* np.linalg.norm; the vectors of the model have integral norms
Norm(v) == CHOOSE n \in 0..Dot(v, v) : n * n = Dot(v, v)

\* dot / (norm * norm), in hundredths
Cosine(v, q) == (Dot(v, q) * 100) \div (Norm(v) * Norm(q))

\* filter_metadata=None
NoFilter == [none |-> TRUE, dict |-> EmptyDict]

\* a filter dict; each value is [list |-> FALSE, v |-> value] or
\* [list |-> TRUE, v |-> the set of the list's items]
Filter(d) == [none |-> FALSE, dict |-> d]

Scalar(v) == [list |-> FALSE, v |-> v]

ListOf(items) == [list |-> TRUE, v |-> items]

\* a variant that is content with one passing key
MatchesFilterAnyKey(meta, filter_dict) ==
    \E key \in DOMAIN filter_dict :
        /\ key \in DOMAIN meta
        /\ IF filter_dict[key].list THEN meta[key] \in filter_dict[key].v
           ELSE meta[key] = filter_dict[key].v

\* _matches_filter
MatchesFilter(meta, filter_dict) ==
    \A key \in DOMAIN filter_dict :
        /\ key \in DOMAIN meta
        /\ IF filter_dict[key].list THEN meta[key] \in filter_dict[key].v
           ELSE meta[key] = filter_dict[key].v

\* the array `similarities`: zero for a row of zero norm, else the cosine
Similarities(rows, q) ==
    [i \in 1..Len(rows) |-> IF Norm(rows[i]) > 0 THEN Cosine(rows[i], q) ELSE 0]

RECURSIVE InsertDesc(_, _)
\* x placed behind every element of the sorted list s that is not smaller
InsertDesc(s, x) ==
    IF s = <<>> THEN <<x>>
    ELSE IF s[1].score >= x.score THEN <<s[1]>> \o InsertDesc(Tail(s), x)
         ELSE <<x>> \o s

RECURSIVE SortDesc(_)
\* list.sort(key=score, reverse=True): stable, equal scores keep their order
SortDesc(s) ==
    IF s = <<>> THEN <<>>
    ELSE InsertDesc(SortDesc(SubSeq(s, 1, Len(s) - 1)), s[Len(s)])

\* s[:top_k] for top_k >= 0
Truncate(s, top_k) == SubSeq(s, 1, IF Len(s) < top_k THEN Len(s) ELSE top_k)

\* the 0-based rows i of the loop over enumerate(self.metadata) that are kept
ValidIndicesList(mds, sims, min_similarity, filter) ==
    SelectSeq([i \in 1..Len(mds) |-> i - 1],
              LAMBDA i : /\ sims[i + 1] >= min_similarity
                         /\ (filter.none \/ MatchesFilter(mds[i + 1], filter.dict)))

\* search(query_vector, top_k, min_similarity, filter_metadata); a result is
\* (id, metadata, score), and i is the row it was read from
Search(st, sh, query_vector, top_k, min_similarity, filter) ==
    IF st.vectors.none \/ Len(st.vectors.rows) = 0 THEN Returned(<<>>)
    ELSE IF Norm(query_vector) = 0 THEN Returned(<<>>)
    ELSE IF \A i \in 1..Len(st.vectors.rows) : Norm(st.vectors.rows[i]) = 0
         THEN Returned(<<>>)
    ELSE LET rows == st.vectors.rows
             mds  == Contents(st.metadata, sh)
             sims == Similarities(rows, query_vector)
         IN  IF Len(mds) > Len(rows) THEN Raised("IndexError")
             ELSE LET keep == ValidIndicesList(mds, sims, min_similarity, filter)
                      hit(i) == [i |-> i, id |-> mds[i + 1]["id"],
                                 metadata |-> mds[i + 1], score |-> sims[i + 1]]
                  IN  Returned(Truncate(SortDesc([k \in 1..Len(keep) |-> hit(keep[k])]),
                                        top_k))

-----------------------------------------------------------------------------
(* VectorStore.get_by_id *)

GetById(st, sh, vector_id) ==
    IF vector_id \notin DOMAIN st.index THEN Returned([found |-> FALSE])
    ELSE LET idx == st.index[vector_id]
         IN  IF st.vectors.none THEN Raised("TypeError")
             ELSE IF idx >= Len(st.vectors.rows) \/ idx >= Len(st.metadata)
                  THEN Raised("IndexError")
                  ELSE Returned([found |-> TRUE,
                                 vector |-> st.vectors.rows[idx + 1],
                                 metadata |-> Deref(st.metadata[idx + 1], sh)])

-----------------------------------------------------------------------------
(* VectorStore.delete *)

\* the loop that rebuilds self.index from enumerate(self.metadata)
RECURSIVE RebuildIndex(_, _, _)
RebuildIndex(mds, ix, i) ==
    IF i > Len(mds) THEN ix
    ELSE RebuildIndex(mds, DictSet(ix, mds[i]["id"], i - 1), i + 1)

Delete(st, sh, vector_id) ==
    IF vector_id \notin DOMAIN st.index THEN [out |-> Returned(FALSE), store |-> st]
    ELSE LET idx == st.index[vector_id]
         IN  IF st.vectors.none THEN [out |-> Raised("AxisError"), store |-> st]
             ELSE IF idx >= Len(st.vectors.rows)
                  THEN [out |-> Raised("IndexError"), store |-> st]
                  ELSE LET v1 == Arr(st.vectors.width, RemoveAt(st.vectors.rows, idx))
                       IN  IF idx >= Len(st.metadata)
                           THEN [out |-> Raised("IndexError"),
                                 store |-> StoreRec(v1, st.metadata, st.index, st.dimension)]
                           ELSE LET md1 == RemoveAt(st.metadata, idx)
                                    ix1 == RebuildIndex(Contents(md1, sh), EmptyDict, 1)
                                IN  [out |-> Returned(TRUE),
                                     store |-> StoreRec(v1, md1, ix1, st.dimension)]

-----------------------------------------------------------------------------
(* VectorStore.update_metadata *)

\* update_metadata as it would be with the id and timestamp written into
\* new_metadata before the lookup of vector_id
UpdateMetadataStampFirst(st, sh, vector_id, cell, now) ==
    LET c2  == DictSet(DictSet(Deref(cell, sh), "id", vector_id), "updated_at", now)
        sh2 == IF cell.ref = 0 THEN sh ELSE [sh EXCEPT ![cell.ref] = c2]
    IN  IF vector_id \notin DOMAIN st.index
        THEN [out |-> Returned(FALSE), metadata |-> st.metadata, shared |-> sh2]
        ELSE LET idx == st.index[vector_id]
             IN  IF idx >= Len(st.metadata)
                 THEN [out |-> Raised("IndexError"), metadata |-> st.metadata,
                       shared |-> sh2]
                 ELSE LET old == Deref(st.metadata[idx + 1], sh2)
                          c3  == IF "added_at" \in DOMAIN old
                                 THEN DictSet(c2, "added_at", old["added_at"]) ELSE c2
                          sh3 == IF cell.ref = 0 THEN sh ELSE [sh EXCEPT ![cell.ref] = c3]
                          new == IF cell.ref = 0 THEN Own(c3) ELSE cell
                      IN  [out |-> Returned(TRUE),
                           metadata |-> [st.metadata EXCEPT ![idx + 1] = new],
                           shared |-> sh3]

\* new_metadata is the dict object `cell`; a fresh dict literal is Own(d)
UpdateMetadata(st, sh, vector_id, cell, now) ==
    IF vector_id \notin DOMAIN st.index
    THEN [out |-> Returned(FALSE), metadata |-> st.metadata, shared |-> sh]
    ELSE LET idx == st.index[vector_id]
             \* new_metadata['id'] = ...; new_metadata['updated_at'] = ...
             c2  == DictSet(DictSet(Deref(cell, sh), "id", vector_id), "updated_at", now)
             sh2 == IF cell.ref = 0 THEN sh ELSE [sh EXCEPT ![cell.ref] = c2]
         IN  IF idx >= Len(st.metadata)
             THEN [out |-> Raised("IndexError"), metadata |-> st.metadata, shared |-> sh2]
             ELSE LET old == Deref(st.metadata[idx + 1], sh2)
                      c3  == IF "added_at" \in DOMAIN old
                             THEN DictSet(c2, "added_at", old["added_at"]) ELSE c2
                      sh3 == IF cell.ref = 0 THEN sh ELSE [sh EXCEPT ![cell.ref] = c3]
                      new == IF cell.ref = 0 THEN Own(c3) ELSE cell
                  IN  [out |-> Returned(TRUE),
                       metadata |-> [st.metadata EXCEPT ![idx + 1] = new],
                       shared |-> sh3]

-----------------------------------------------------------------------------
(* VectorStore.save and VectorStore.load *)

\* a variant that writes the three artifacts only when there are vectors
SaveSkipAllWhenNone(st, sh, dk) ==
    IF st.vectors.none THEN dk
    ELSE DiskRec(File(st.vectors), File(Contents(st.metadata, sh)), File(st.index))

\* save(): np.save when self.vectors is not None, then the two json.dump calls
Save(st, sh, dk) ==
    DiskRec(IF st.vectors.none THEN dk.vectors_file ELSE File(st.vectors),
            File(Contents(st.metadata, sh)),
            File(st.index))

\* save() cut short by the end of the process between np.save and the first
\* json.dump
SaveTorn(st, sh, dk) ==
    DiskRec(Save(st, sh, dk).vectors_file, dk.metadata_file, dk.index_file)

\* json.load of metadata.json: a list of new dict objects
LoadedMetadata(data) == [i \in 1..Len(data) |-> Own(data[i])]

\* load(): each artifact that exists replaces the field it holds
Load(st, dk) ==
    StoreRec(IF dk.vectors_file.exists THEN dk.vectors_file.data ELSE st.vectors,
             IF dk.metadata_file.exists THEN LoadedMetadata(dk.metadata_file.data)
             ELSE st.metadata,
             IF dk.index_file.exists THEN dk.index_file.data ELSE st.index,
             IF dk.vectors_file.exists
             THEN (IF Len(dk.vectors_file.data.rows) > 0 THEN dk.vectors_file.data.width
                   ELSE NoneDim)
             ELSE st.dimension)

\* VectorStore(storage_dir): __init__ sets the empty fields and calls load()
Construct(dk) == Load(EmptyStore, dk)

-----------------------------------------------------------------------------
(* VectorStore.clear *)

Clear(st) == EmptyStore

-----------------------------------------------------------------------------
(* The state machine. *)

Current == StoreRec(vectors, metadata, index, dimension)

OnDisk == DiskRec(vectors_file, metadata_file, index_file)

SetStore(st) ==
    /\ vectors' = st.vectors
    /\ metadata' = st.metadata
    /\ index' = st.index
    /\ dimension' = st.dimension

\* no thread is inside a store method; the VerseService singleton as __init__
\* leaves it
InitOthers ==
    /\ lock = [owner |-> 0, count |-> 0]
    /\ frame = [t \in 1..NumThreads |-> [op |-> "idle", pc |-> 0]]
    /\ embedding_service = 0
    /\ vector_store_manager = 0
    /\ verse_store = 0
    /\ objects = [EmbeddingService |-> 0, VectorStoreManager |-> 0, VectorStore |-> 0]
    /\ embeddings = [encodes |-> TRUE, loaded |-> FALSE, sims |-> <<>>]
    /\ qdrant = [available |-> FALSE]
    /\ wellness_service = [instance |-> 0, initialized |-> FALSE, db |-> 0]

Init ==
    /\ vectors = NoneArr
    /\ metadata = <<>>
    /\ index = EmptyDict
    /\ dimension = NoneDim
    /\ vectors_file = NoFile
    /\ metadata_file = NoFile
    /\ index_file = NoFile
    /\ shared \in [1..NumShared -> NewMetas]
    /\ clock = 1
    /\ last = [op |-> "__init__"]
    /\ InitOthers

RowCount == IF vectors.none THEN 0 ELSE Len(vectors.rows)

\* add_vectors called with one of the given batches
AddAction(batches) ==
    /\ clock <= MaxClock
    /\ \E b \in batches :
         LET r == AddVectors(Current, b.vectors, b.width, b.metadata, b.ids, clock)
         IN  /\ SetStore(r.store)
             /\ last' = [op |-> "add_vectors", vectors |-> b.vectors, width |-> b.width,
                         metadata |-> b.metadata, ids |-> b.ids, now |-> clock,
                         exc |-> r.out.exc, ret |-> r.out.ret]
             /\ clock' = IF r.out.exc = "" THEN clock + 1 ELSE clock
    /\ UNCHANGED <<disk, shared, threads, service, wellness_service>>

DoAddVectors == AddAction(Batches(MaxRows - RowCount))

\* add_vectors called with ids omitted
DoAddVectorsNoIds == AddAction({b \in Batches(MaxRows - RowCount) : b.ids.none})

\* filter_metadata arguments
Filters == {NoFilter, Filter([verse_number |-> Scalar(1)])}

DoSearch ==
    /\ \E query_vector \in Queries(IF vectors.none THEN 2 ELSE vectors.width),
          top_k \in TopKs, min_similarity \in MinSims, filter \in Filters :
         LET r == Search(Current, shared, query_vector, top_k, min_similarity, filter)
         IN  last' = [op |-> "search", query_vector |-> query_vector, top_k |-> top_k,
                      min_similarity |-> min_similarity, filter |-> filter,
                      exc |-> r.exc, ret |-> r.ret]
    /\ UNCHANGED <<store, disk, shared, clock, threads, service, wellness_service>>

DoGetById ==
    /\ \E vector_id \in AllIds :
         LET r == GetById(Current, shared, vector_id)
         IN  last' = [op |-> "get_by_id", vector_id |-> vector_id,
                      exc |-> r.exc, ret |-> r.ret]
    /\ UNCHANGED <<store, disk, shared, clock, threads, service, wellness_service>>

DoDelete ==
    /\ \E vector_id \in AllIds :
         LET r == Delete(Current, shared, vector_id)
         IN  /\ SetStore(r.store)
             /\ last' = [op |-> "delete", vector_id |-> vector_id,
                         exc |-> r.out.exc, ret |-> r.out.ret]
    /\ UNCHANGED <<disk, shared, clock, threads, service, wellness_service>>

\* the dict objects a caller passes as new_metadata
NewMetaCells == {Own(d) : d \in NewMetas} \cup {Ref(k) : k \in 1..NumShared}

DoUpdateMetadata ==
    /\ clock <= MaxClock
    /\ \E vector_id \in AllIds, cell \in NewMetaCells :
         LET r == UpdateMetadata(Current, shared, vector_id, cell, clock)
         IN  /\ metadata' = r.metadata
             /\ shared' = r.shared
             /\ last' = [op |-> "update_metadata", vector_id |-> vector_id,
                         new_metadata |-> cell, now |-> clock,
                         exc |-> r.out.exc, ret |-> r.out.ret]
             /\ clock' = IF vector_id \in DOMAIN index THEN clock + 1 ELSE clock
    /\ UNCHANGED <<vectors, index, dimension, disk, threads, service, wellness_service>>

SetDisk(dk) ==
    /\ vectors_file' = dk.vectors_file
    /\ metadata_file' = dk.metadata_file
    /\ index_file' = dk.index_file

DoSave ==
    /\ SetDisk(Save(Current, shared, OnDisk))
    /\ last' = [op |-> "save", exc |-> "", ret |-> TRUE]
    /\ UNCHANGED <<store, shared, clock, threads, service, wellness_service>>

DoLoad ==
    /\ SetStore(Load(Current, OnDisk))
    /\ last' = [op |-> "load", exc |-> "", ret |-> TRUE]
    /\ UNCHANGED <<disk, shared, clock, threads, service, wellness_service>>

\* a new VectorStore on the same storage directory takes the place of this one
DoConstruct ==
    /\ SetStore(Construct(OnDisk))
    /\ last' = [op |-> "__init__"]
    /\ UNCHANGED <<disk, shared, clock, threads, service, wellness_service>>

\* the process ends inside save(), between np.save and the first json.dump; the
\* next process constructs its VectorStore on what is on disk
DoSaveCrash ==
    /\ LET dk == SaveTorn(Current, shared, OnDisk)
       IN  /\ SetDisk(dk)
           /\ SetStore(Construct(dk))
    /\ last' = [op |-> "crash"]
    /\ UNCHANGED <<shared, clock, threads, service, wellness_service>>

DoClear ==
    /\ SetStore(Clear(Current))
    /\ last' = [op |-> "clear"]
    /\ UNCHANGED <<disk, shared, clock, threads, service, wellness_service>>

\* the calls that change the store or its artifacts
NextStore ==
    \/ DoAddVectors
    \/ DoDelete
    \/ DoUpdateMetadata
    \/ DoClear
    \/ DoSave
    \/ DoLoad
    \/ DoConstruct
    \/ DoSaveCrash

\* every call, and the end of the process inside save()
Next ==
    \/ NextStore
    \/ DoGetById
    \/ DoSearch

Spec == Init /\ [][Next]_vars

\* the calls that change the store or its artifacts, and the end of the process
SpecStore == Init /\ [][NextStore]_vars

\* the calls that change the store in memory
NextMemory ==
    \/ DoAddVectors
    \/ DoDelete
    \/ DoUpdateMetadata
    \/ DoClear

SpecMemory == Init /\ [][NextMemory]_vars

\* add_vectors with ids omitted, delete, and get_by_id
NextNoIds ==
    \/ DoAddVectorsNoIds
    \/ DoDelete
    \/ DoGetById

SpecNoIds == Init /\ [][NextNoIds]_vars

\* every call of the public interface; no process ends inside save()
NextApi ==
    \/ DoAddVectors
    \/ DoDelete
    \/ DoUpdateMetadata
    \/ DoClear
    \/ DoSave
    \/ DoLoad
    \/ DoConstruct
    \/ DoGetById
    \/ DoSearch

SpecApi == Init /\ [][NextApi]_vars

\* the calls that change the store or its artifacts, and get_by_id
NextLookup ==
    \/ NextStore
    \/ DoGetById

SpecLookup == Init /\ [][NextLookup]_vars

\* The store of a process that starts on a directory an earlier process saved:
\* that process added the first two verses under the caller's ids, at time 0.
SavedEarlier ==
    LET b == Batch(1, 2, TRUE)
        st == AddVectors(EmptyStore, b.vectors, b.width, b.metadata, b.ids, 0).store
    IN  Save(st, <<>>, DiskRec(NoFile, NoFile, NoFile))

InitReopened ==
    /\ vectors_file = SavedEarlier.vectors_file
    /\ metadata_file = SavedEarlier.metadata_file
    /\ index_file = SavedEarlier.index_file
    /\ vectors = Construct(SavedEarlier).vectors
    /\ metadata = Construct(SavedEarlier).metadata
    /\ index = Construct(SavedEarlier).index
    /\ dimension = Construct(SavedEarlier).dimension
    /\ shared \in [1..NumShared -> NewMetas]
    /\ clock = 1
    /\ last = [op |-> "__init__"]
    /\ InitOthers

\* the calls that change the store in memory, on that reopened store
SpecReopened == InitReopened /\ [][NextMemory]_vars

-----------------------------------------------------------------------------
(* The store's methods run by several threads, statement by statement. *)

Threads == 1..NumThreads

Idle == [op |-> "idle", pc |-> 0]

\* a variant in which save() does not take the lock
LockedExceptSave ==
    {"add_vectors", "search", "get_by_id", "delete", "update_metadata", "load",
     "clear", "get_stats"}

\* the methods whose whole body is inside `with self._lock:`
Locked ==
    {"add_vectors", "search", "get_by_id", "delete", "update_metadata", "save",
     "load", "clear", "get_stats"}

\* RLock.acquire() returns: the lock is free, or this thread holds it already
CanAcquire(lk, t) == lk.owner = 0 \/ lk.owner = t

Acquired(lk, t) == [owner |-> t, count |-> lk.count + 1]

\* RLock.release()
Released(lk) ==
    IF lk.count <= 1 THEN [owner |-> 0, count |-> 0]
    ELSE [owner |-> lk.owner, count |-> lk.count - 1]

\* the arguments a thread may call a method with
ThreadCalls ==
    [op : {"add_vectors"}, batch : {b \in Batches(MaxRows - RowCount) : ~b.ids.none}]
        \cup [op : {"delete", "get_by_id"}, vector_id : AllIds]
        \cup [op : {"update_metadata"}, vector_id : AllIds,
               cell : {Ref(k) : k \in 1..NumShared}]
        \cup [op : {"search", "save", "load", "clear", "get_stats"}]

\* the method has returned or raised: the frame is gone
Done(st, sh, dk) == [store |-> st, shared |-> sh, disk |-> dk, frame |-> Idle]

\* the method goes on to its next statement, with local variables loc
Goes(st, sh, dk, f, loc) ==
    [store |-> st, shared |-> sh, disk |-> dk,
     frame |-> [f EXCEPT !.pc = f.pc + 1, !.loc = loc]]

\* add_vectors: the checks and the np.vstack, then the loop
StepAddVectors(f, st, sh, dk) ==
    LET b == f.call.batch
    IN  IF f.pc = 1
        THEN LET r == AddVectors(st, b.vectors, b.width, b.metadata, b.ids, f.now)
             IN  IF r.out.exc # "" THEN Done(st, sh, dk)
                 ELSE Goes(StoreRec(r.store.vectors, st.metadata, st.index,
                                    r.store.dimension),
                           sh, dk, f, r.out.ret)
        ELSE LET lp == AddLoop(st.metadata, st.index, b.metadata, f.loc, 1, f.now)
             IN  Done(StoreRec(st.vectors, lp.metadata, lp.index, st.dimension), sh, dk)

\* delete: the lookup and np.delete, then del self.metadata[idx], then the
\* rebuilding of the index
StepDelete(f, st, sh, dk) ==
    IF f.pc = 1
    THEN IF f.call.vector_id \notin DOMAIN st.index THEN Done(st, sh, dk)
         ELSE LET idx == st.index[f.call.vector_id]
              IN  IF st.vectors.none \/ idx >= Len(st.vectors.rows) THEN Done(st, sh, dk)
                  ELSE Goes(StoreRec(Arr(st.vectors.width, RemoveAt(st.vectors.rows, idx)),
                                     st.metadata, st.index, st.dimension),
                            sh, dk, f, idx)
    ELSE IF f.pc = 2
         THEN IF f.loc >= Len(st.metadata) THEN Done(st, sh, dk)
              ELSE Goes(StoreRec(st.vectors, RemoveAt(st.metadata, f.loc), st.index,
                                 st.dimension),
                        sh, dk, f, f.loc)
         ELSE Done(StoreRec(st.vectors, st.metadata,
                            RebuildIndex(Contents(st.metadata, sh), EmptyDict, 1),
                            st.dimension),
                   sh, dk)

\* clear: self.vectors = None, then self.metadata = [], then the other two
StepClear(f, st, sh, dk) ==
    IF f.pc = 1
    THEN Goes(StoreRec(NoneArr, st.metadata, st.index, st.dimension), sh, dk, f, 0)
    ELSE IF f.pc = 2
         THEN Goes(StoreRec(st.vectors, <<>>, st.index, st.dimension), sh, dk, f, 0)
         ELSE Done(StoreRec(st.vectors, st.metadata, EmptyDict, NoneDim), sh, dk)

\* save: np.save, then json.dump of the metadata, then json.dump of the index
StepSave(f, st, sh, dk) ==
    IF f.pc = 1 THEN Goes(st, sh, SaveTorn(st, sh, dk), f, 0)
    ELSE IF f.pc = 2
         THEN Goes(st, sh,
                   DiskRec(dk.vectors_file, Save(st, sh, dk).metadata_file, dk.index_file),
                   f, 0)
         ELSE Done(st, sh,
                   DiskRec(dk.vectors_file, dk.metadata_file, Save(st, sh, dk).index_file))

\* load: np.load, then json.load of the metadata, then json.load of the index
StepLoad(f, st, sh, dk) ==
    LET ld == Load(st, dk)
    IN  IF f.pc = 1
        THEN Goes(StoreRec(ld.vectors, st.metadata, st.index, ld.dimension), sh, dk, f, 0)
        ELSE IF f.pc = 2
             THEN Goes(StoreRec(st.vectors, ld.metadata, st.index, st.dimension),
                       sh, dk, f, 0)
             ELSE Done(StoreRec(st.vectors, st.metadata, ld.index, st.dimension), sh, dk)

\* update_metadata, whose statements touch one metadata row
StepUpdateMetadata(f, st, sh, dk) ==
    LET r == UpdateMetadata(st, sh, f.call.vector_id, f.call.cell, f.now)
    IN  Done(StoreRec(st.vectors, r.metadata, st.index, st.dimension), r.shared, dk)

\* the next statement of the method thread t is inside
ThreadStep(t) ==
    /\ frame[t].op # "idle"
    /\ LET f == frame[t]
           st == Current
           r == CASE f.op = "add_vectors" -> StepAddVectors(f, st, shared, OnDisk)
                  [] f.op = "delete" -> StepDelete(f, st, shared, OnDisk)
                  [] f.op = "clear" -> StepClear(f, st, shared, OnDisk)
                  [] f.op = "save" -> StepSave(f, st, shared, OnDisk)
                  [] f.op = "load" -> StepLoad(f, st, shared, OnDisk)
                  [] f.op = "update_metadata" -> StepUpdateMetadata(f, st, shared, OnDisk)
                  [] OTHER -> Done(st, shared, OnDisk)
       IN  /\ SetStore(r.store)
           /\ SetDisk(r.disk)
           /\ shared' = r.shared
           /\ frame' = [frame EXCEPT ![t] = r.frame]
           /\ lock' = IF r.frame.op = "idle" /\ f.locked THEN Released(lock) ELSE lock
    /\ UNCHANGED <<clock, last, service, wellness_service>>

\* thread t calls a method and enters its body, through `with self._lock:`
ThreadCall(t) ==
    /\ frame[t].op = "idle"
    /\ \E c \in ThreadCalls :
         LET timed == c.op \in {"add_vectors", "update_metadata"}
         IN  /\ c.op \in Locked => CanAcquire(lock, t)
             /\ timed => clock <= MaxClock
             /\ lock' = IF c.op \in Locked THEN Acquired(lock, t) ELSE lock
             /\ frame' = [frame EXCEPT ![t] = [op |-> c.op, pc |-> 1, call |-> c,
                                               locked |-> c.op \in Locked,
                                               now |-> clock, loc |-> 0]]
             /\ clock' = IF timed THEN clock + 1 ELSE clock
    /\ UNCHANGED <<store, disk, shared, last, service, wellness_service>>

NextThreads == \E t \in Threads : ThreadCall(t) \/ ThreadStep(t)

SpecThreads == Init /\ [][NextThreads]_vars

-----------------------------------------------------------------------------
(* VerseService: the lazy initialization, run by several threads. *)

\* the two searches that call _ensure_embeddings_initialized; the empty theme
\* returns from search_verses_by_theme before that call
SearchMethods == {"search_verses_by_theme", "search_chapters_by_theme"}

\* thread t calls a search with a theme that is not empty
ServiceCall(t) ==
    /\ frame[t].op = "idle"
    /\ \E m \in SearchMethods :
         frame' = [frame EXCEPT ![t] = [op |-> m, pc |-> "ensure", loc |-> 0, used |-> 0]]
    /\ UNCHANGED <<store, disk, shared, clock, last, lock, service, wellness_service>>

\* if self.embedding_service is None:
EnsureCheck(t) ==
    /\ frame[t].op \in SearchMethods /\ frame[t].pc = "ensure"
    /\ frame' = [frame EXCEPT ![t].pc = IF embedding_service = 0 THEN "EmbeddingService"
                                        ELSE "find_similar_verses"]
    /\ UNCHANGED <<store, disk, shared, clock, last, lock, service, wellness_service>>

\* EmbeddingService(): the model loads and the object exists, or it raises and
\* the call ends with that exception
EnsureConstruct(t) ==
    /\ frame[t].op \in SearchMethods /\ frame[t].pc = "EmbeddingService"
    /\ \/ /\ objects' = [objects EXCEPT !.EmbeddingService = @ + 1]
          /\ frame' = [frame EXCEPT ![t].pc = "embedding_service",
                                    ![t].loc = objects.EmbeddingService + 1]
       \/ /\ frame' = [frame EXCEPT ![t] = Idle]
          /\ UNCHANGED objects
    /\ UNCHANGED <<store, disk, shared, clock, last, lock, embedding_service,
                   vector_store_manager, verse_store,
                   embeddings, qdrant, wellness_service>>

\* self.embedding_service = <the object just constructed>
EnsureAssign(t) ==
    /\ frame[t].op \in SearchMethods /\ frame[t].pc = "embedding_service"
    /\ embedding_service' = frame[t].loc
    /\ frame' = [frame EXCEPT ![t].pc = "vector_store_manager"]
    /\ UNCHANGED <<store, disk, shared, clock, last, lock, vector_store_manager,
                   verse_store, objects,
                   embeddings, qdrant, wellness_service>>

\* self.vector_store_manager = VectorStoreManager()
EnsureManager(t) ==
    /\ frame[t].op \in SearchMethods /\ frame[t].pc = "vector_store_manager"
    /\ objects' = [objects EXCEPT !.VectorStoreManager = @ + 1]
    /\ vector_store_manager' = objects.VectorStoreManager + 1
    /\ frame' = [frame EXCEPT ![t].pc = "verse_store"]
    /\ UNCHANGED <<store, disk, shared, clock, last, lock, embedding_service,
                   verse_store,
                   embeddings, qdrant, wellness_service>>

\* self.verse_store = self.vector_store_manager.get_store("verses"): the new
\* manager has no store of that name and constructs one
EnsureStore(t) ==
    /\ frame[t].op \in SearchMethods /\ frame[t].pc = "verse_store"
    /\ objects' = [objects EXCEPT !.VectorStore = @ + 1]
    /\ verse_store' = objects.VectorStore + 1
    /\ frame' = [frame EXCEPT ![t].pc = "find_similar_verses"]
    /\ UNCHANGED <<store, disk, shared, clock, last, lock, embedding_service,
                   vector_store_manager,
                   embeddings, qdrant, wellness_service>>

\* self.embedding_service.find_similar_verses(...): the handle the call uses
UseHandle(t) ==
    /\ frame[t].op \in SearchMethods /\ frame[t].pc = "find_similar_verses"
    /\ frame' = [frame EXCEPT ![t].pc = "return", ![t].used = embedding_service]
    /\ UNCHANGED <<store, disk, shared, clock, last, lock, service, wellness_service>>

\* the search returns
ServiceReturn(t) ==
    /\ frame[t].op \in SearchMethods /\ frame[t].pc = "return"
    /\ frame' = [frame EXCEPT ![t] = Idle]
    /\ UNCHANGED <<store, disk, shared, clock, last, lock, service, wellness_service>>

NextService ==
    \E t \in Threads :
        \/ ServiceCall(t)
        \/ EnsureCheck(t)
        \/ EnsureConstruct(t)
        \/ EnsureAssign(t)
        \/ EnsureManager(t)
        \/ EnsureStore(t)
        \/ UseHandle(t)
        \/ ServiceReturn(t)

SpecService == Init /\ [][NextService]_vars

-----------------------------------------------------------------------------
(* Strings of the searches: a str is the sequence of its characters. *)

UpperCase ==
    <<"A", "B", "C", "D", "E", "F", "G", "H", "I", "J", "K", "L", "M",
      "N", "O", "P", "Q", "R", "S", "T", "U", "V", "W", "X", "Y", "Z">>

LowerCase ==
    <<"a", "b", "c", "d", "e", "f", "g", "h", "i", "j", "k", "l", "m",
      "n", "o", "p", "q", "r", "s", "t", "u", "v", "w", "x", "y", "z">>

LowerChar(c) ==
    IF \E i \in 1..Len(UpperCase) : UpperCase[i] = c
    THEN LowerCase[CHOOSE i \in 1..Len(UpperCase) : UpperCase[i] = c]
    ELSE c

\* str.lower()
Lower(str) == SubSeq([i \in 1..Len(str) |-> LowerChar(str[i])], 1, Len(str))

\* Python's `needle in hay` on two strings
In(needle, hay) ==
    \E i \in 0..(Len(hay) - Len(needle)) : SubSeq(hay, i + 1, i + Len(needle)) = needle

-----------------------------------------------------------------------------
(* EmbeddingService.find_similar_verses *)

\* the verse_metadata of the embeddings, in source order: four passages of
\* chapter 1 (the last without an English text) and one of chapter 2, whose
\* passage count is not known; verse_number is the key create_verse_embeddings
\* stores with every passage
Passages ==
    <<
       [verse_id |-> <<"1", ":", "1">>, surah_number |-> 1,
        verse_number |-> <<"1", ":", "1">>,
        surah_name |-> <<"N", "u", "r">>,
        analysis |-> <<"h", "i", "s", " ", "M", "e", "r", "c", "y">>,
        translation |-> <<"h", "i", "s", " ", "M", "e", "r", "c", "y">>,
        arabic_text |-> <<"r", "h", "m">>,
        number_of_verses |-> 2, revelation_place |-> <<"M", "e", "c", "c", "a">>],
       [verse_id |-> <<"1", ":", "2">>, surah_number |-> 1,
        verse_number |-> <<"1", ":", "2">>,
        surah_name |-> <<"N", "u", "r">>,
        analysis |-> <<"t", "h", "e", "y", " ", "p", "r", "a", "y">>,
        translation |-> <<"t", "h", "e", "y", " ", "p", "r", "a", "y">>,
        arabic_text |-> <<"s", "l", "a">>,
        number_of_verses |-> 2, revelation_place |-> <<"M", "e", "c", "c", "a">>],
       [verse_id |-> <<"1", ":", "3">>, surah_number |-> 1,
        verse_number |-> <<"1", ":", "3">>,
        surah_name |-> <<"N", "u", "r">>,
        analysis |-> <<"H", "i", "s", " ", "g", "r", "a", "c", "e">>,
        translation |-> <<"H", "i", "s", " ", "g", "r", "a", "c", "e">>,
        arabic_text |-> <<"f", "d", "l">>,
        number_of_verses |-> 2, revelation_place |-> <<"M", "e", "c", "c", "a">>],
       [verse_id |-> <<"1", ":", "4">>, surah_number |-> 1,
        verse_number |-> <<"1", ":", "4">>,
        surah_name |-> <<"N", "u", "r">>,
        analysis |-> <<>>,
        translation |-> <<"t", "h", "e", " ", "p", "a", "t", "h">>,
        arabic_text |-> <<"s", "i", "r", "a", "t">>,
        number_of_verses |-> 2, revelation_place |-> <<"M", "e", "c", "c", "a">>],
       [verse_id |-> <<"2", ":", "1">>, surah_number |-> 2,
        verse_number |-> <<"2", ":", "1">>,
        surah_name |-> <<"M", "e", "r", "c", "y">>,
        analysis |-> <<"t", "h", "e", " ", "s", "u", "n">>,
        translation |-> <<"t", "h", "e", " ", "s", "u", "n">>,
        arabic_text |-> <<"s", "h", "m">>,
        number_of_verses |-> 0, revelation_place |-> <<"M", "e", "d", "i", "n", "a">>]
    >>

\* cosine similarities in hundredths, as the model may give them
SimValues == <<99, 98, 97, 96, 100, 5>>

\* one similarity per passage; no two alike, so that np.argsort has one answer:
\* SimValues and its reverse, each started at every passage
SimAssignments ==
    {[i \in 1..Len(Passages) |-> SimValues[((i + r) % Len(SimValues)) + 1]] :
        r \in 1..Len(SimValues)}
    \cup {[i \in 1..Len(Passages) |->
              SimValues[((r + Len(SimValues) - i) % Len(SimValues)) + 1]] :
            r \in 1..Len(SimValues)}

\* the EmbeddingService object a search finds: no embeddings loaded, a model
\* that fails to encode, or embeddings (verse_metadata) with the similarities
\* to the query
EmbeddingStates ==
    {[encodes |-> e, loaded |-> FALSE, sims |-> <<>>] : e \in BOOLEAN}
        \cup {[encodes |-> TRUE, loaded |-> TRUE, sims |-> f,
               verse_metadata |-> Passages] : f \in SimAssignments}

\* np.argsort(similarities)[::-1]: the positions by descending similarity
ArgsortDesc(sims) ==
    [k \in 1..Len(sims) |->
        CHOOSE i \in 1..Len(sims) :
            Cardinality({j \in 1..Len(sims) : sims[j] > sims[i]}) = k - 1]

RECURSIVE KeepAtLeast(_, _, _)
\* the loop that keeps the positions whose similarity is >= min_similarity
KeepAtLeast(top, sims, min_similarity) ==
    IF top = <<>> THEN <<>>
    ELSE IF sims[Head(top)] >= min_similarity
         THEN <<Head(top)>> \o KeepAtLeast(Tail(top), sims, min_similarity)
         ELSE KeepAtLeast(Tail(top), sims, min_similarity)

\* find_similar_verses(query, top_k, min_similarity)
FindSimilarVerses(es, top_k, min_similarity) ==
    IF ~es.encodes THEN Raised("Exception")
    ELSE IF ~es.loaded THEN Raised("ValueError")
    ELSE LET order == ArgsortDesc(es.sims)
             top == SubSeq(order, 1, IF top_k < Len(order) THEN top_k ELSE Len(order))
             kept == KeepAtLeast(top, es.sims, min_similarity)
         IN  Returned([k \in 1..Len(kept) |->
                          [verse |-> es.verse_metadata[kept[k]],
                           score |-> es.sims[kept[k]]]])

-----------------------------------------------------------------------------
(* VerseService.search_verses_by_theme *)

\* min_similarity=0.1, in hundredths
VerseMinSimilarity == 10

\* the themes of the calls: the empty one, and words in both cases
Themes ==
    {<<>>, <<"m", "e", "r", "c", "y">>, <<"P", "r", "a", "y">>, <<"r", "a", "i", "n">>,
     <<"M", "e">>, <<"o", "f", " ", "m", "e", "r", "c", "y">>}

MaxResults == {1, 2, 10}

\* the fields VerseService reads, as the dict has them or get()'s default
GetField(verse, key, default) == IF key \in DOMAIN verse THEN verse[key] ELSE default

\* one entry of the result: the verse with its score and its chapter_info
VerseEntry(verse, score) ==
    LET scored == DictSet(verse, "similarity_score", score)
        surah_number == GetField(verse, "surah_number", 0)
    IN  IF surah_number # 0
        THEN DictSet(scored, "chapter_info",
                     [surah_number |-> surah_number,
                      name |-> GetField(verse, "surah_name", <<>>),
                      revelation_place |-> GetField(verse, "revelation_place", <<>>),
                      verses_count |-> GetField(verse, "verses_count", 0),
                      summary |-> GetField(verse, "surah_summary", <<>>)])
        ELSE scored

\* a variant without the try block
SemanticVersesNoTry(es, max_results) ==
    LET similar_verses == FindSimilarVerses(es, max_results, VerseMinSimilarity)
    IN  IF similar_verses.exc # "" THEN Raised(similar_verses.exc)
        ELSE IF similar_verses.ret # <<>>
             THEN Returned([k \in 1..Len(similar_verses.ret) |->
                               VerseEntry(similar_verses.ret[k].verse,
                                          similar_verses.ret[k].score)])
             ELSE Returned(<<>>)

\* the body of search_verses_by_theme after the initialization: the try block
\* around the semantic search, and `return []` after it
SemanticVerses(es, max_results) ==
    LET similar_verses == FindSimilarVerses(es, max_results, VerseMinSimilarity)
    IN  IF similar_verses.exc = "" /\ similar_verses.ret # <<>>
        THEN Returned([k \in 1..Len(similar_verses.ret) |->
                          VerseEntry(similar_verses.ret[k].verse,
                                     similar_verses.ret[k].score)])
        ELSE Returned(<<>>)

\* the VerseService fields as one record
ServiceRec(es, vsm, vs, objs) ==
    [embedding_service |-> es, vector_store_manager |-> vsm, verse_store |-> vs,
     objects |-> objs]

TheService == ServiceRec(embedding_service, vector_store_manager, verse_store, objects)

SetService(svc) ==
    /\ embedding_service' = svc.embedding_service
    /\ vector_store_manager' = svc.vector_store_manager
    /\ verse_store' = svc.verse_store
    /\ objects' = svc.objects

\* _ensure_embeddings_initialized(), run without interruption; loads tells
\* whether EmbeddingService() can load a model
EnsureEmbeddingsInitialized(svc, loads) ==
    IF svc.embedding_service # 0 THEN [exc |-> "", service |-> svc]
    ELSE IF ~loads THEN [exc |-> "InitError", service |-> svc]
    ELSE [exc |-> "",
          service |-> ServiceRec(svc.objects.EmbeddingService + 1,
                                 svc.objects.VectorStoreManager + 1,
                                 svc.objects.VectorStore + 1,
                                 [EmbeddingService |-> svc.objects.EmbeddingService + 1,
                                  VectorStoreManager |-> svc.objects.VectorStoreManager + 1,
                                  VectorStore |-> svc.objects.VectorStore + 1])]

\* a variant that initializes before it looks at the theme
SearchVersesEnsureFirst(svc, theme, max_results, es, loads) ==
    LET init == EnsureEmbeddingsInitialized(svc, loads)
    IN  IF init.exc # "" THEN [out |-> Raised(init.exc), service |-> init.service]
        ELSE IF theme = <<>> THEN [out |-> Returned(<<>>), service |-> init.service]
        ELSE [out |-> SemanticVerses(es, max_results), service |-> init.service]

\* search_verses_by_theme(theme, max_results)
SearchVersesByTheme(svc, theme, max_results, es, loads) ==
    IF theme = <<>> THEN [out |-> Returned(<<>>), service |-> svc]
    ELSE LET init == EnsureEmbeddingsInitialized(svc, loads)
         IN  IF init.exc # "" THEN [out |-> Raised(init.exc), service |-> init.service]
             ELSE [out |-> SemanticVerses(es, max_results), service |-> init.service]

DoSearchVersesByTheme ==
    /\ \E theme \in Themes, max_results \in MaxResults, loads \in BOOLEAN :
         LET r == SearchVersesByTheme(TheService, theme, max_results, embeddings, loads)
         IN  /\ SetService(r.service)
             /\ last' = [op |-> "search_verses_by_theme", theme |-> theme,
                         max_results |-> max_results,
                         exc |-> r.out.exc, ret |-> r.out.ret]
    /\ UNCHANGED <<store, disk, shared, clock, threads, embeddings, qdrant,
                   wellness_service>>

\* a new store and service, with any state of the embeddings
InitVerses ==
    /\ vectors = NoneArr
    /\ metadata = <<>>
    /\ index = EmptyDict
    /\ dimension = NoneDim
    /\ vectors_file = NoFile
    /\ metadata_file = NoFile
    /\ index_file = NoFile
    /\ shared \in [1..NumShared -> NewMetas]
    /\ clock = 1
    /\ last = [op |-> "__init__"]
    /\ lock = [owner |-> 0, count |-> 0]
    /\ frame = [t \in 1..NumThreads |-> [op |-> "idle", pc |-> 0]]
    /\ embedding_service = 0
    /\ vector_store_manager = 0
    /\ verse_store = 0
    /\ objects = [EmbeddingService |-> 0, VectorStoreManager |-> 0, VectorStore |-> 0]
    /\ embeddings \in EmbeddingStates
    /\ qdrant = [available |-> FALSE]
    /\ wellness_service = [instance |-> 0, initialized |-> FALSE, db |-> 0]

\* calls of search_verses_by_theme, one after the other
NextVerses == DoSearchVersesByTheme

SpecVerses == InitVerses /\ [][NextVerses]_vars

-----------------------------------------------------------------------------
(* VerseService: the helpers of search_chapters_by_theme. *)

Digits == {"0", "1", "2", "3", "4", "5", "6", "7", "8", "9"}

IsLetter(c) ==
    \E i \in 1..Len(UpperCase) : UpperCase[i] = c \/ LowerCase[i] = c

\* \w of the regular expression
IsWordChar(c) == IsLetter(c) \/ c \in Digits \/ c = "_"

UpperChar(c) ==
    IF \E i \in 1..Len(LowerCase) : LowerCase[i] = c
    THEN UpperCase[CHOOSE i \in 1..Len(LowerCase) : LowerCase[i] = c]
    ELSE c

\* str.title()
Title(str) ==
    [i \in 1..Len(str) |->
        IF i = 1 \/ ~IsLetter(str[i - 1]) THEN UpperChar(str[i]) ELSE LowerChar(str[i])]

RECURSIVE FindAllWords(_, _)
\* re.findall(r'\b\w+\b', str), cur being the word read so far
FindAllWords(str, cur) ==
    IF str = <<>> THEN (IF cur = <<>> THEN <<>> ELSE <<cur>>)
    ELSE IF IsWordChar(Head(str)) THEN FindAllWords(Tail(str), Append(cur, Head(str)))
         ELSE (IF cur = <<>> THEN <<>> ELSE <<cur>>) \o FindAllWords(Tail(str), <<>>)

RECURSIVE AfterLastColon(_, _)
\* str.split(':')[-1], cur being the part read since the last colon
AfterLastColon(str, cur) ==
    IF str = <<>> THEN cur
    ELSE IF Head(str) = ":" THEN AfterLastColon(Tail(str), <<>>)
         ELSE AfterLastColon(Tail(str), Append(cur, Head(str)))

\* stop_words of _extract_theme_keywords
StopWords ==
    {
      <<"t", "h", "e">>, <<"a", "n", "d">>, <<"o", "r">>, <<"b", "u", "t">>,
      <<"i", "n">>, <<"o", "n">>, <<"a", "t">>, <<"t", "o">>, <<"f", "o", "r">>,
      <<"o", "f">>, <<"w", "i", "t", "h">>, <<"b", "y">>, <<"a">>, <<"a", "n">>
    }

\* semantic_indicators of _calculate_contextual_relevance
SemanticIndicators ==
    <<
       [concept |-> <<"p", "r", "a", "y", "e", "r">>,
        words |->
          <<
            <<"w", "o", "r", "s", "h", "i", "p">>,
            <<"d", "e", "v", "o", "t", "i", "o", "n">>,
            <<"p", "r", "a", "i", "s", "e">>, <<"g", "l", "o", "r", "i", "f", "y">>,
            <<"r", "e", "m", "e", "m", "b", "e", "r">>
          >>],
       [concept |-> <<"g", "u", "i", "d", "a", "n", "c", "e">>,
        words |->
          <<
            <<"p", "a", "t", "h">>, <<"w", "a", "y">>,
            <<"d", "i", "r", "e", "c", "t", "i", "o", "n">>, <<"l", "e", "a", "d">>,
            <<"g", "u", "i", "d", "e">>
          >>],
       [concept |-> <<"m", "e", "r", "c", "y">>,
        words |->
          <<
            <<"c", "o", "m", "p", "a", "s", "s", "i", "o", "n">>,
            <<"f", "o", "r", "g", "i", "v", "e", "n", "e", "s", "s">>,
            <<"k", "i", "n", "d", "n", "e", "s", "s">>, <<"g", "r", "a", "c", "e">>
          >>],
       [concept |-> <<"p", "a", "t", "i", "e", "n", "c", "e">>,
        words |->
          <<
            <<"p", "e", "r", "s", "e", "v", "e", "r", "a", "n", "c", "e">>,
            <<"e", "n", "d", "u", "r", "a", "n", "c", "e">>,
            <<"s", "t", "e", "a", "d", "f", "a", "s", "t">>, <<"b", "e", "a", "r">>
          >>],
       [concept |-> <<"f", "a", "i", "t", "h">>,
        words |->
          <<
            <<"b", "e", "l", "i", "e", "v", "e">>, <<"t", "r", "u", "s", "t">>,
            <<"c", "o", "n", "v", "i", "c", "t", "i", "o", "n">>,
            <<"c", "e", "r", "t", "a", "i", "n", "t", "y">>
          >>],
       [concept |-> <<"j", "u", "s", "t", "i", "c", "e">>,
        words |->
          <<
            <<"f", "a", "i", "r">>, <<"r", "i", "g", "h", "t">>,
            <<"e", "q", "u", "i", "t", "y">>, <<"b", "a", "l", "a", "n", "c", "e">>
          >>],
       [concept |-> <<"k", "n", "o", "w", "l", "e", "d", "g", "e">>,
        words |->
          <<
            <<"w", "i", "s", "d", "o", "m">>,
            <<"u", "n", "d", "e", "r", "s", "t", "a", "n", "d", "i", "n", "g">>,
            <<"l", "e", "a", "r", "n">>, <<"t", "e", "a", "c", "h">>
          >>]
    >>

\* theme_patterns of _extract_themes_from_verse
ThemePatterns ==
    <<
       [concept |-> <<"p", "r", "a", "y", "e", "r">>,
        words |->
          <<
            <<"p", "r", "a", "y">>, <<"w", "o", "r", "s", "h", "i", "p">>,
            <<"d", "e", "v", "o", "t", "i", "o", "n">>,
            <<"p", "r", "a", "i", "s", "e">>, <<"g", "l", "o", "r", "i", "f", "y">>,
            <<"r", "e", "m", "e", "m", "b", "e", "r", " ", "a", "l", "l", "a", "h">>,
            <<"s", "a", "l", "a", "h">>
          >>],
       [concept |-> <<"g", "u", "i", "d", "a", "n", "c", "e">>,
        words |->
          <<
            <<"g", "u", "i", "d", "e">>, <<"p", "a", "t", "h">>, <<"w", "a", "y">>,
            <<"d", "i", "r", "e", "c", "t", "i", "o", "n">>, <<"l", "e", "a", "d">>,
            <<"s", "t", "r", "a", "i", "g", "h", "t", " ", "p", "a", "t", "h">>,
            <<"g", "u", "i", "d", "a", "n", "c", "e">>
          >>],
       [concept |-> <<"m", "e", "r", "c", "y">>,
        words |->
          <<
            <<"m", "e", "r", "c", "y">>,
            <<"c", "o", "m", "p", "a", "s", "s", "i", "o", "n">>,
            <<"f", "o", "r", "g", "i", "v", "e", "n", "e", "s", "s">>,
            <<"k", "i", "n", "d", "n", "e", "s", "s">>, <<"g", "r", "a", "c", "e">>,
            <<"m", "e", "r", "c", "i", "f", "u", "l">>
          >>],
       [concept |-> <<"p", "a", "t", "i", "e", "n", "c", "e">>,
        words |->
          <<
            <<"p", "a", "t", "i", "e", "n", "c", "e">>,
            <<"p", "e", "r", "s", "e", "v", "e", "r", "a", "n", "c", "e">>,
            <<"e", "n", "d", "u", "r", "a", "n", "c", "e">>,
            <<"s", "t", "e", "a", "d", "f", "a", "s", "t">>, <<"b", "e", "a", "r">>,
            <<"p", "a", "t", "i", "e", "n", "t">>
          >>],
       [concept |-> <<"f", "a", "i", "t", "h">>,
        words |->
          <<
            <<"f", "a", "i", "t", "h">>, <<"b", "e", "l", "i", "e", "v", "e">>,
            <<"t", "r", "u", "s", "t">>,
            <<"c", "o", "n", "v", "i", "c", "t", "i", "o", "n">>,
            <<"c", "e", "r", "t", "a", "i", "n", "t", "y">>,
            <<"b", "e", "l", "i", "e", "v", "e", "r", "s">>
          >>],
       [concept |-> <<"j", "u", "s", "t", "i", "c", "e">>,
        words |->
          <<
            <<"j", "u", "s", "t", "i", "c", "e">>, <<"f", "a", "i", "r">>,
            <<"r", "i", "g", "h", "t">>, <<"e", "q", "u", "i", "t", "y">>,
            <<"b", "a", "l", "a", "n", "c", "e">>, <<"j", "u", "s", "t">>
          >>],
       [concept |-> <<"k", "n", "o", "w", "l", "e", "d", "g", "e">>,
        words |->
          <<
            <<"k", "n", "o", "w", "l", "e", "d", "g", "e">>,
            <<"w", "i", "s", "d", "o", "m">>,
            <<"u", "n", "d", "e", "r", "s", "t", "a", "n", "d", "i", "n", "g">>,
            <<"l", "e", "a", "r", "n">>, <<"t", "e", "a", "c", "h">>,
            <<"k", "n", "o", "w">>
          >>],
       [concept |-> <<"c", "h", "a", "r", "i", "t", "y">>,
        words |->
          <<
            <<"c", "h", "a", "r", "i", "t", "y">>, <<"g", "i", "v", "e">>,
            <<"s", "p", "e", "n", "d">>, <<"p", "o", "o", "r">>,
            <<"n", "e", "e", "d", "y">>, <<"z", "a", "k", "a", "h">>
          >>],
       [concept |-> <<"f", "o", "r", "g", "i", "v", "e", "n", "e", "s", "s">>,
        words |->
          <<
            <<"f", "o", "r", "g", "i", "v", "e">>, <<"p", "a", "r", "d", "o", "n">>,
            <<"m", "e", "r", "c", "y">>, <<"r", "e", "p", "e", "n", "t">>,
            <<"r", "e", "p", "e", "n", "t", "a", "n", "c", "e">>
          >>],
       [concept |-> <<"g", "r", "a", "t", "i", "t", "u", "d", "e">>,
        words |->
          <<
            <<"g", "r", "a", "t", "e", "f", "u", "l">>, <<"t", "h", "a", "n", "k">>,
            <<"p", "r", "a", "i", "s", "e">>,
            <<"a", "p", "p", "r", "e", "c", "i", "a", "t", "e">>,
            <<"b", "l", "e", "s", "s", "i", "n", "g">>
          >>]
    >>

RECURSIVE KeepKeywords(_)
\* [word for word in words if word not in stop_words and len(word) > 2]
KeepKeywords(words) ==
    IF words = <<>> THEN <<>>
    ELSE IF Head(words) \notin StopWords /\ Len(Head(words)) > 2
         THEN <<Head(words)>> \o KeepKeywords(Tail(words))
         ELSE KeepKeywords(Tail(words))

\* _extract_theme_keywords(theme)
ExtractThemeKeywords(theme) == KeepKeywords(FindAllWords(Lower(theme), <<>>))

\* sum(1 for word in words if word in text)
CountIn(words, text) == Cardinality({k \in 1..Len(words) : In(words[k], text)})

RECURSIVE SemanticScore(_, _, _)
\* the loop over semantic_indicators from its i-th concept on: 0.1, here 10
\* hundredths, for each indicator of a concept named in the theme
SemanticScore(theme_lower, verse_lower, i) ==
    IF i > Len(SemanticIndicators) THEN 0
    ELSE (IF In(SemanticIndicators[i].concept, theme_lower)
          THEN 10 * CountIn(SemanticIndicators[i].words, verse_lower) ELSE 0)
         + SemanticScore(theme_lower, verse_lower, i + 1)

\* _calculate_contextual_relevance(verse_text, theme, theme_keywords), in
\* hundredths; 0.6 / len(theme_keywords) is a whole number of hundredths for the
\* one to six keywords of the themes here
CalculateContextualRelevance(verse_text, theme, theme_keywords) ==
    LET verse_lower == Lower(verse_text)
        theme_lower == Lower(theme)
        keyword_matches == CountIn(theme_keywords, verse_lower)
        n == IF Len(theme_keywords) > 1 THEN Len(theme_keywords) ELSE 1
        sum == (60 * keyword_matches) \div n + SemanticScore(theme_lower, verse_lower, 1)
    IN  IF In(theme_lower, verse_lower) THEN 80
        ELSE IF sum < 100 THEN sum ELSE 100

\* _extract_themes_from_verse(verse_text, search_theme)
ExtractThemesFromVerse(verse_text, search_theme) ==
    LET verse_lower == Lower(verse_text)
    IN  (IF In(Lower(search_theme), verse_lower) THEN {search_theme} ELSE {})
        \cup {ThemePatterns[i].concept : i \in
                {j \in 1..Len(ThemePatterns) :
                    \E k \in 1..Len(ThemePatterns[j].words) :
                        In(ThemePatterns[j].words[k], verse_lower)}}

-----------------------------------------------------------------------------
(* VerseService.get_first_entries_per_surah and get_all_chapters *)

\* the payloads of the points of the collection, as scroll_points returns them
QdrantPoints == <<Passages[5], Passages[1], Passages[2], Passages[3], Passages[4]>>

\* the collection can be read, or every scroll_points call raises
QdrantStates == {[available |-> TRUE], [available |-> FALSE]}

\* get_first_entries_per_surah(): one entry per surah_number, with the name and
\* place of its first point and the number of its points, by surah_number
GetFirstEntriesPerSurah(qd) ==
    IF ~qd.available THEN <<>>
    ELSE LET numbers == {QdrantPoints[i].surah_number : i \in 1..Len(QdrantPoints)}
             first(n) == QdrantPoints[CHOOSE i \in 1..Len(QdrantPoints) :
                            /\ QdrantPoints[i].surah_number = n
                            /\ \A j \in 1..(i - 1) : QdrantPoints[j].surah_number # n]
             count(n) == Cardinality({i \in 1..Len(QdrantPoints) :
                                         QdrantPoints[i].surah_number = n})
             nth(k) == CHOOSE n \in numbers : Cardinality({m \in numbers : m < n}) = k - 1
         IN  [k \in 1..Cardinality(numbers) |->
                [surah_name |-> first(nth(k)).surah_name,
                 surah_number |-> nth(k),
                 number_of_verses |-> count(nth(k)),
                 revelation_place |-> first(nth(k)).revelation_place]]

\* get_all_chapters()
GetAllChapters(qd) ==
    LET chapters == GetFirstEntriesPerSurah(qd)
    IN  [k \in 1..Len(chapters) |->
            [name |-> chapters[k].surah_name,
             surah_number |-> chapters[k].surah_number,
             number_of_verses |-> chapters[k].number_of_verses,
             revelation_place |-> chapters[k].revelation_place,
             summary |-> <<>>]]

-----------------------------------------------------------------------------
(* VerseService._keyword_search_chapters_fallback *)

\* a float that is a quotient of two integers
Frac(n, d) == [num |-> n, den |-> d]

FracGeq(a, b) == a.num * b.den >= b.num * a.den

\* a variant that does not look at the revelation place
MatchReasonsNoPlace(chapter, theme) ==
    LET theme_lower == Lower(theme)
    IN  (IF In(theme_lower, Lower(chapter.name)) THEN <<"name">> ELSE <<>>)
        \o (IF In(theme_lower, Lower(chapter.summary)) THEN <<"summary">> ELSE <<>>)

\* match_reasons of one chapter
MatchReasons(chapter, theme) ==
    LET theme_lower == Lower(theme)
    IN  (IF In(theme_lower, Lower(chapter.name)) THEN <<"name">> ELSE <<>>)
        \o (IF In(theme_lower, Lower(chapter.summary)) THEN <<"summary">> ELSE <<>>)
        \o (IF In(theme_lower, Lower(chapter.revelation_place))
            THEN <<"revelation_place">> ELSE <<>>)

RECURSIVE MatchingChapters(_, _, _)
\* the loop over all_chapters from its i-th chapter on; relevance_explanation
\* is kept as the chapter name and the fields its sentence names
MatchingChapters(all_chapters, theme, i) ==
    IF i > Len(all_chapters) THEN <<>>
    ELSE LET chapter == all_chapters[i]
             match_reasons == MatchReasons(chapter, theme)
             chapter_with_explanation ==
                 [name |-> chapter.name,
                  surah_number |-> chapter.surah_number,
                  number_of_verses |-> chapter.number_of_verses,
                  revelation_place |-> chapter.revelation_place,
                  summary |-> chapter.summary,
                  relevance_explanation |-> [surah |-> chapter.name,
                                             because |-> match_reasons],
                  matching_verses |-> <<>>,
                  themes_found |-> <<Title(theme)>>,
                  similarity |-> Frac(1, 2)]
         IN  (IF match_reasons # <<>> THEN <<chapter_with_explanation>> ELSE <<>>)
             \o MatchingChapters(all_chapters, theme, i + 1)

\* _keyword_search_chapters_fallback(theme, max_results)
KeywordSearchChaptersFallback(qd, theme, max_results) ==
    Truncate(MatchingChapters(GetAllChapters(qd), theme, 1), max_results)

-----------------------------------------------------------------------------
(* VerseService.search_chapters_by_theme *)

\* min_similarity=0.1 of find_similar_verses, in hundredths
DefaultMinSimilarity == 10

\* Python's None where a string may stand
NoneStr == [none |-> TRUE]

\* verse.get('analysis', '') or verse.get('arabic_text', '')
VerseText(verse) ==
    IF GetField(verse, "analysis", <<>>) # <<>> THEN verse.analysis
    ELSE GetField(verse, "arabic_text", <<>>)

\* a variant without the keyword boost
ScoredVerseNoBoost(verse, similarity_score, theme, theme_keywords) ==
    LET verse_text == VerseText(verse)
    IN  [verse_number |-> IF GetField(verse, "verse_id", <<>>) # <<>>
                          THEN AfterLastColon(verse.verse_id, <<>>) ELSE NoneStr,
         text |-> verse_text,
         similarity |-> similarity_score,
         contextual_score |->
             CalculateContextualRelevance(verse_text, theme, theme_keywords)]

\* the dict appended to chapter_info[surah_number]['verses']; similarity and
\* contextual_score are in hundredths, the keyword boost of 0.1 is 10
ScoredVerse(verse, similarity_score, theme, theme_keywords) ==
    LET verse_text == VerseText(verse)
        keyword_boost == 10 * CountIn(theme_keywords, Lower(verse_text))
        adjusted_similarity == IF similarity_score + keyword_boost < 100
                               THEN similarity_score + keyword_boost ELSE 100
    IN  [verse_number |-> IF GetField(verse, "verse_id", <<>>) # <<>>
                          THEN AfterLastColon(verse.verse_id, <<>>) ELSE NoneStr,
         text |-> verse_text,
         similarity |-> adjusted_similarity,
         contextual_score |->
             CalculateContextualRelevance(verse_text, theme, theme_keywords)]

RECURSIVE SurahOrder(_, _)
\* the keys of chapter_info in the order the loop inserts them
SurahOrder(similar_verses, seen) ==
    IF similar_verses = <<>> THEN <<>>
    ELSE LET n == GetField(Head(similar_verses).verse, "surah_number", 0)
         IN  IF n \in seen THEN SurahOrder(Tail(similar_verses), seen)
             ELSE <<n>> \o SurahOrder(Tail(similar_verses), seen \cup {n})

RECURSIVE VersesOf(_, _, _, _)
\* the 'verses' list of chapter n after the loop over similar_verses
VersesOf(similar_verses, n, theme, theme_keywords) ==
    IF similar_verses = <<>> THEN <<>>
    ELSE LET e == Head(similar_verses)
             rest == VersesOf(Tail(similar_verses), n, theme, theme_keywords)
         IN  IF GetField(e.verse, "surah_number", 0) = n
             THEN <<ScoredVerse(e.verse, e.score, theme, theme_keywords)>> \o rest
             ELSE rest

RECURSIVE SumSimilarity(_)
SumSimilarity(verses) ==
    IF verses = <<>> THEN 0 ELSE Head(verses).similarity + SumSimilarity(Tail(verses))

RECURSIVE SumContextual(_)
SumContextual(verses) ==
    IF verses = <<>> THEN 0
    ELSE Head(verses).contextual_score + SumContextual(Tail(verses))

RECURSIVE MaxSimilarity(_)
\* max_similarity, which starts at 0
MaxSimilarity(verses) ==
    IF verses = <<>> THEN 0
    ELSE LET m == MaxSimilarity(Tail(verses))
         IN  IF Head(verses).similarity > m THEN Head(verses).similarity ELSE m

\* chapter_info[n] after the loop over similar_verses
ChapterInfo(similar_verses, n, theme, theme_keywords) ==
    LET first == (CHOOSE k \in 1..Len(similar_verses) :
                     /\ GetField(similar_verses[k].verse, "surah_number", 0) = n
                     /\ \A j \in 1..(k - 1) :
                          GetField(similar_verses[j].verse, "surah_number", 0) # n)
        verse == similar_verses[first].verse
        verses == VersesOf(similar_verses, n, theme, theme_keywords)
    IN  [surah_name |-> GetField(verse, "surah_name", <<>>),
         number_of_verses |-> GetField(verse, "number_of_verses", 0),
         revelation_place |-> GetField(verse, "revelation_place", <<>>),
         verses |-> verses,
         total_similarity |-> SumSimilarity(verses),
         max_similarity |-> MaxSimilarity(verses),
         verse_count |-> Len(verses),
         themes_found |-> UNION {ExtractThemesFromVerse(verses[k].text, theme) :
                                    k \in 1..Len(verses)},
         contextual_score |-> SumContextual(verses)]

\* a variant of the composite score with 0.5 for the average relevance
CompositeScoreHeavy(info) ==
    LET vc == info.verse_count
        d == IF info.number_of_verses > 0 THEN info.number_of_verses ELSE 1
        density == IF info.number_of_verses > 0
                   THEN (IF vc < info.number_of_verses THEN vc ELSE info.number_of_verses)
                   ELSE 0
        diversity == Cardinality(info.themes_found)
        bonus == IF 5 * diversity < 5 THEN 5 * diversity ELSE 5
    IN  Frac(50 * info.total_similarity * d
               + 30 * info.max_similarity * vc * d
               + 1500 * density * vc
               + 10 * info.contextual_score * d
               + 100 * bonus * vc * d,
             10000 * vc * d)

\* composite_score = avg_similarity * 0.4 + max_similarity * 0.3
\*   + verse_density * 0.15 + avg_contextual * 0.1 + min(theme_diversity * 0.05, 0.05)
\* as the quotient of two integers: similarities are hundredths, the weights
\* are hundredths, verse_density is density / d, and both averages divide by
\* verse_count
CompositeScore(info) ==
    LET vc == info.verse_count
        d == IF info.number_of_verses > 0 THEN info.number_of_verses ELSE 1
        density == IF info.number_of_verses > 0
                   THEN (IF vc < info.number_of_verses THEN vc ELSE info.number_of_verses)
                   ELSE 0
        diversity == Cardinality(info.themes_found)
        bonus == IF 5 * diversity < 5 THEN 5 * diversity ELSE 5
    IN  Frac(40 * info.total_similarity * d
               + 30 * info.max_similarity * vc * d
               + 1500 * density * vc
               + 10 * info.contextual_score * d
               + 100 * bonus * vc * d,
             10000 * vc * d)

RECURSIVE InsertVerse(_, _)
InsertVerse(sorted, v) ==
    IF sorted = <<>> THEN <<v>>
    ELSE IF sorted[1].similarity >= v.similarity
         THEN <<sorted[1]>> \o InsertVerse(Tail(sorted), v)
         ELSE <<v>> \o sorted

RECURSIVE SortVerses(_)
\* info['verses'].sort(key=lambda v: v['similarity'], reverse=True)
SortVerses(verses) ==
    IF verses = <<>> THEN <<>>
    ELSE InsertVerse(SortVerses(SubSeq(verses, 1, Len(verses) - 1)), verses[Len(verses)])

RECURSIVE InsertChapter(_, _)
InsertChapter(sorted, c) ==
    IF sorted = <<>> THEN <<c>>
    ELSE IF FracGeq(sorted[1].similarity, c.similarity)
         THEN <<sorted[1]>> \o InsertChapter(Tail(sorted), c)
         ELSE <<c>> \o sorted

RECURSIVE SortChapters(_)
\* surah_results.sort(key=lambda x: x['similarity'], reverse=True)
SortChapters(chapters) ==
    IF chapters = <<>> THEN <<>>
    ELSE InsertChapter(SortChapters(SubSeq(chapters, 1, Len(chapters) - 1)),
                       chapters[Len(chapters)])

\* a variant that returns all of a chapter's verses
AllMatchingVerses(verses) == SortVerses(verses)

\* info['verses'] sorted, and its [:3]
TopMatchingVerses(verses) == Truncate(SortVerses(verses), 3)

\* the dict appended to surah_results; of relevance_explanation the two bands
\* that choose its wording are kept
SurahResult(n, info) ==
    LET vc == info.verse_count
        d == IF info.number_of_verses > 0 THEN info.number_of_verses ELSE 1
        density == IF info.number_of_verses > 0
                   THEN (IF vc < info.number_of_verses THEN vc ELSE info.number_of_verses)
                   ELSE 0
    IN  [surah_number |-> n,
         surah_name |-> info.surah_name,
         number_of_verses |-> info.number_of_verses,
         revelation_place |-> info.revelation_place,
         similarity |-> CompositeScore(info),
         matching_verses |-> TopMatchingVerses(info.verses),
         themes_found |-> info.themes_found,
         relevance_explanation |->
             [surah |-> info.surah_name,
              relevance |-> IF info.total_similarity > 80 * vc THEN "highly relevant"
                            ELSE IF info.total_similarity > 60 * vc
                                 THEN "strong connections" ELSE "relates to",
              verse_count |-> vc,
              coverage |-> IF 10 * density > d THEN "substantial"
                           ELSE IF 20 * density > d THEN "moderate" ELSE ""],
         verse_coverage |-> vc,
         contextual_relevance |-> Frac(info.contextual_score, 100 * vc)]

\* the semantic path: aggregation, scoring, sorting, [:max_results]
AggregateChapters(similar_verses, theme, max_results) ==
    LET theme_keywords == ExtractThemeKeywords(theme)
        order == SurahOrder(similar_verses, {})
        surah_results ==
            [k \in 1..Len(order) |->
                SurahResult(order[k],
                            ChapterInfo(similar_verses, order[k], theme, theme_keywords))]
    IN  Truncate(SortChapters(SubSeq(surah_results, 1, Len(order))), max_results)

\* search_chapters_by_theme(theme, max_results): the whole body is in a try
\* block whose handler returns the keyword fallback
SearchChaptersByTheme(svc, theme, max_results, es, loads, qd) ==
    LET init == EnsureEmbeddingsInitialized(svc, loads)
        fallback == KeywordSearchChaptersFallback(qd, theme, max_results)
        top_k == IF max_results * 8 < 100 THEN max_results * 8 ELSE 100
        similar_verses == FindSimilarVerses(es, top_k, DefaultMinSimilarity)
    IN  IF init.exc # ""
        THEN [out |-> Returned(fallback), path |-> "keyword", service |-> init.service]
        ELSE IF similar_verses.exc # "" \/ similar_verses.ret = <<>>
             THEN [out |-> Returned(fallback), path |-> "keyword",
                   service |-> init.service]
             ELSE [out |-> Returned(AggregateChapters(similar_verses.ret, theme,
                                                      max_results)),
                   path |-> "semantic", service |-> init.service]

\* r is the one value the call computes
DoSearchChaptersByTheme ==
    /\ \E theme \in Themes, max_results \in MaxResults,
          loads \in (IF embedding_service = 0 THEN BOOLEAN ELSE {TRUE}) :
         \E r \in {SearchChaptersByTheme(TheService, theme, max_results, embeddings,
                                        loads, qdrant)} :
             /\ SetService(r.service)
             /\ last' = [op |-> "search_chapters_by_theme", theme |-> theme,
                         max_results |-> max_results, path |-> r.path,
                         exc |-> r.out.exc, ret |-> r.out.ret]
    /\ UNCHANGED <<store, disk, shared, clock, threads, embeddings, qdrant,
                   wellness_service>>

\* a new store and service, with any state of the embeddings and of Qdrant
InitChapters ==
    /\ vectors = NoneArr
    /\ metadata = <<>>
    /\ index = EmptyDict
    /\ dimension = NoneDim
    /\ vectors_file = NoFile
    /\ metadata_file = NoFile
    /\ index_file = NoFile
    /\ shared \in [1..NumShared -> NewMetas]
    /\ clock = 1
    /\ last = [op |-> "__init__"]
    /\ lock = [owner |-> 0, count |-> 0]
    /\ frame = [t \in 1..NumThreads |-> [op |-> "idle", pc |-> 0]]
    /\ embedding_service = 0
    /\ vector_store_manager = 0
    /\ verse_store = 0
    /\ objects = [EmbeddingService |-> 0, VectorStoreManager |-> 0, VectorStore |-> 0]
    /\ embeddings \in EmbeddingStates
    /\ qdrant \in QdrantStates
    /\ wellness_service = [instance |-> 0, initialized |-> FALSE, db |-> 0]

\* calls of search_chapters_by_theme, one after the other
NextChapters == DoSearchChaptersByTheme

SpecChapters == InitChapters /\ [][NextChapters]_vars

-----------------------------------------------------------------------------
(* routes/verses.py: search_chapters *)

\* the values of sort_by a request carries; a request without one gets 'relevance'
SortBys == {"relevance", "id"}

\* the parameters of VerseService.search_chapters_by_theme after self
SearchChaptersByThemeParams == <<"theme", "max_results">>

\* binding the positional arguments of a call to the parameters of the method:
\* Python raises TypeError, before the body runs, when there are more
\* arguments than parameters
BindError(args, params) == IF Len(args) > Len(params) THEN "TypeError" ELSE ""

\* search_chapters: without a theme the route returns all chapters; with one it
\* calls search_chapters_by_theme(theme, max_results, sort_by), and its handler
\* turns any exception into a 500
DoSearchChaptersRoute ==
    /\ \E theme \in Themes, max_results \in MaxResults, sort_by \in SortBys,
          loads \in (IF embedding_service = 0 THEN BOOLEAN ELSE {TRUE}) :
         LET exc == BindError(<<theme, max_results, sort_by>>,
                              SearchChaptersByThemeParams)
             called == theme # <<>> /\ exc = ""
             r == SearchChaptersByTheme(TheService, theme, max_results, embeddings,
                                        loads, qdrant)
         IN  /\ SetService(IF called THEN r.service ELSE TheService)
             /\ last' = [op |-> "search_chapters", theme |-> theme,
                         max_results |-> max_results, sort_by |-> sort_by,
                         status |-> IF theme = <<>> \/ called THEN 200 ELSE 500,
                         error |-> IF theme = <<>> THEN "" ELSE exc,
                         chapters |-> IF theme = <<>>
                                      THEN Truncate(GetAllChapters(qdrant), max_results)
                                      ELSE IF called THEN r.out.ret ELSE <<>>]
    /\ UNCHANGED <<store, disk, shared, clock, threads, embeddings, qdrant,
                   wellness_service>>

\* requests to /chapters/search, one after the other
NextRoute == DoSearchChaptersRoute

SpecRoute == InitChapters /\ [][NextRoute]_vars

-----------------------------------------------------------------------------
(* WellnessService._detect_wellness_categories *)

\* _initialize_wellness_categories(): the categories in the order of the dict,
\* each with its id, its themes and its keywords (name, description, color and
\* icon are not read by the scoring)
WellnessCategories ==
    <<
       [id |-> "anxiety_stress",
        themes |->
          <<
            <<"p", "e", "a", "c", "e", " ", "a", "n", "d", " ", "t", "r", "a", "n", "q", "u", "i", "l", "i", "t", "y">>,
            <<"t", "r", "u", "s", "t", " ", "i", "n", " ", "A", "l", "l", "a", "h">>,
            <<"p", "a", "t", "i", "e", "n", "c", "e", " ", "i", "n", " ", "h", "a", "r", "d", "s", "h", "i", "p">>,
            <<"r", "e", "l", "i", "e", "f", " ", "f", "r", "o", "m", " ", "a", "n", "x", "i", "e", "t", "y">>,
            <<"c", "o", "m", "f", "o", "r", "t", " ", "i", "n", " ", "d", "i", "s", "t", "r", "e", "s", "s">>,
            <<"d", "i", "v", "i", "n", "e", " ", "p", "r", "o", "t", "e", "c", "t", "i", "o", "n">>,
            <<"i", "n", "n", "e", "r", " ", "p", "e", "a", "c", "e">>,
            <<"c", "a", "l", "m", " ", "h", "e", "a", "r", "t">>,
            <<"s", "e", "r", "e", "n", "i", "t", "y">>,
            <<"t", "r", "u", "s", "t", " ", "a", "n", "d", " ", "r", "e", "l", "i", "a", "n", "c", "e">>
          >>,
        keywords |->
          <<
            <<"p", "e", "a", "c", "e">>,
            <<"t", "r", "a", "n", "q", "u", "i", "l", "i", "t", "y">>,
            <<"p", "a", "t", "i", "e", "n", "c", "e">>, <<"t", "r", "u", "s", "t">>,
            <<"c", "o", "m", "f", "o", "r", "t">>,
            <<"p", "r", "o", "t", "e", "c", "t", "i", "o", "n">>,
            <<"c", "a", "l", "m">>
          >>],
       [id |-> "depression_sadness",
        themes |->
          <<
            <<"h", "o", "p", "e", " ", "a", "n", "d", " ", "o", "p", "t", "i", "m", "i", "s", "m">>,
            <<"d", "i", "v", "i", "n", "e", " ", "m", "e", "r", "c", "y">>,
            <<"h", "e", "a", "l", "i", "n", "g", " ", "a", "n", "d", " ", "r", "e", "c", "o", "v", "e", "r", "y">>,
            <<"l", "i", "g", "h", "t", " ", "a", "f", "t", "e", "r", " ", "d", "a", "r", "k", "n", "e", "s", "s">>,
            <<"c", "o", "m", "f", "o", "r", "t", " ", "i", "n", " ", "g", "r", "i", "e", "f">>,
            <<"s", "p", "i", "r", "i", "t", "u", "a", "l", " ", "s", "t", "r", "e", "n", "g", "t", "h">>,
            <<"r", "e", "n", "e", "w", "a", "l", " ", "o", "f", " ", "f", "a", "i", "t", "h">>,
            <<"d", "i", "v", "i", "n", "e", " ", "c", "o", "m", "p", "a", "s", "s", "i", "o", "n">>,
            <<"o", "v", "e", "r", "c", "o", "m", "i", "n", "g", " ", "d", "e", "s", "p", "a", "i", "r">>
          >>,
        keywords |->
          <<
            <<"h", "o", "p", "e">>, <<"m", "e", "r", "c", "y">>,
            <<"h", "e", "a", "l", "i", "n", "g">>, <<"l", "i", "g", "h", "t">>,
            <<"c", "o", "m", "f", "o", "r", "t">>,
            <<"s", "t", "r", "e", "n", "g", "t", "h">>,
            <<"c", "o", "m", "p", "a", "s", "s", "i", "o", "n">>
          >>],
       [id |-> "self_worth",
        themes |->
          <<
            <<"h", "u", "m", "a", "n", " ", "d", "i", "g", "n", "i", "t", "y">>,
            <<"p", "u", "r", "p", "o", "s", "e", " ", "o", "f", " ", "c", "r", "e", "a", "t", "i", "o", "n">>,
            <<"d", "i", "v", "i", "n", "e", " ", "l", "o", "v", "e", " ", "f", "o", "r", " ", "h", "u", "m", "a", "n", "i", "t", "y">>,
            <<"i", "n", "d", "i", "v", "i", "d", "u", "a", "l", " ", "w", "o", "r", "t", "h">>,
            <<"s", "p", "i", "r", "i", "t", "u", "a", "l", " ", "p", "o", "t", "e", "n", "t", "i", "a", "l">>,
            <<"n", "o", "b", "l", "e", " ", "c", "h", "a", "r", "a", "c", "t", "e", "r">>,
            <<"s", "e", "l", "f", "-", "r", "e", "s", "p", "e", "c", "t">>,
            <<"c", "o", "n", "f", "i", "d", "e", "n", "c", "e", " ", "i", "n", " ", "f", "a", "i", "t", "h">>,
            <<"p", "e", "r", "s", "o", "n", "a", "l", " ", "g", "r", "o", "w", "t", "h">>
          >>,
        keywords |->
          <<
            <<"d", "i", "g", "n", "i", "t", "y">>,
            <<"p", "u", "r", "p", "o", "s", "e">>,
            <<"c", "r", "e", "a", "t", "i", "o", "n">>, <<"w", "o", "r", "t", "h">>,
            <<"p", "o", "t", "e", "n", "t", "i", "a", "l">>,
            <<"c", "h", "a", "r", "a", "c", "t", "e", "r">>,
            <<"g", "r", "o", "w", "t", "h">>
          >>],
       [id |-> "relationships",
        themes |->
          <<
            <<"k", "i", "n", "d", "n", "e", "s", "s", " ", "a", "n", "d", " ", "c", "o", "m", "p", "a", "s", "s", "i", "o", "n">>,
            <<"f", "o", "r", "g", "i", "v", "e", "n", "e", "s", "s", " ", "i", "n", " ", "r", "e", "l", "a", "t", "i", "o", "n", "s", "h", "i", "p", "s">>,
            <<"f", "a", "m", "i", "l", "y", " ", "b", "o", "n", "d", "s">>,
            <<"f", "r", "i", "e", "n", "d", "s", "h", "i", "p", " ", "a", "n", "d", " ", "b", "r", "o", "t", "h", "e", "r", "h", "o", "o", "d">>,
            <<"c", "o", "m", "m", "u", "n", "i", "t", "y", " ", "s", "u", "p", "p", "o", "r", "t">>,
            <<"s", "o", "c", "i", "a", "l", " ", "j", "u", "s", "t", "i", "c", "e">>,
            <<"t", "r", "e", "a", "t", "i", "n", "g", " ", "o", "t", "h", "e", "r", "s", " ", "w", "e", "l", "l">>,
            <<"e", "m", "p", "a", "t", "h", "y", " ", "a", "n", "d", " ", "u", "n", "d", "e", "r", "s", "t", "a", "n", "d", "i", "n", "g">>,
            <<"c", "o", "n", "f", "l", "i", "c", "t", " ", "r", "e", "s", "o", "l", "u", "t", "i", "o", "n">>
          >>,
        keywords |->
          <<
            <<"k", "i", "n", "d", "n", "e", "s", "s">>,
            <<"f", "o", "r", "g", "i", "v", "e", "n", "e", "s", "s">>,
            <<"f", "a", "m", "i", "l", "y">>,
            <<"f", "r", "i", "e", "n", "d", "s", "h", "i", "p">>,
            <<"c", "o", "m", "m", "u", "n", "i", "t", "y">>,
            <<"j", "u", "s", "t", "i", "c", "e">>,
            <<"e", "m", "p", "a", "t", "h", "y">>
          >>],
       [id |-> "grief_loss",
        themes |->
          <<
            <<"c", "o", "m", "f", "o", "r", "t", " ", "i", "n", " ", "l", "o", "s", "s">>,
            <<"e", "t", "e", "r", "n", "a", "l", " ", "l", "i", "f", "e">>,
            <<"d", "i", "v", "i", "n", "e", " ", "w", "i", "s", "d", "o", "m", " ", "i", "n", " ", "t", "r", "i", "a", "l", "s">>,
            <<"p", "a", "t", "i", "e", "n", "c", "e", " ", "i", "n", " ", "g", "r", "i", "e", "f">>,
            <<"r", "e", "u", "n", "i", "o", "n", " ", "i", "n", " ", "a", "f", "t", "e", "r", "l", "i", "f", "e">>,
            <<"a", "c", "c", "e", "p", "t", "a", "n", "c", "e", " ", "o", "f", " ", "f", "a", "t", "e">>,
            <<"s", "t", "r", "e", "n", "g", "t", "h", " ", "t", "h", "r", "o", "u", "g", "h", " ", "f", "a", "i", "t", "h">>,
            <<"h", "e", "a", "l", "i", "n", "g", " ", "f", "r", "o", "m", " ", "l", "o", "s", "s">>,
            <<"d", "i", "v", "i", "n", "e", " ", "d", "e", "c", "r", "e", "e">>
          >>,
        keywords |->
          <<
            <<"c", "o", "m", "f", "o", "r", "t">>,
            <<"e", "t", "e", "r", "n", "a", "l">>, <<"t", "r", "i", "a", "l", "s">>,
            <<"p", "a", "t", "i", "e", "n", "c", "e">>,
            <<"r", "e", "u", "n", "i", "o", "n">>,
            <<"a", "c", "c", "e", "p", "t", "a", "n", "c", "e">>,
            <<"h", "e", "a", "l", "i", "n", "g">>
          >>],
       [id |-> "anger_management",
        themes |->
          <<
            <<"c", "o", "n", "t", "r", "o", "l", "l", "i", "n", "g", " ", "a", "n", "g", "e", "r">>,
            <<"p", "a", "t", "i", "e", "n", "c", "e", " ", "a", "n", "d", " ", "f", "o", "r", "b", "e", "a", "r", "a", "n", "c", "e">>,
            <<"f", "o", "r", "g", "i", "v", "e", "n", "e", "s", "s", " ", "o", "v", "e", "r", " ", "r", "e", "v", "e", "n", "g", "e">>,
            <<"e", "m", "o", "t", "i", "o", "n", "a", "l", " ", "b", "a", "l", "a", "n", "c", "e">>,
            <<"g", "e", "n", "t", "l", "e", " ", "r", "e", "s", "p", "o", "n", "s", "e">>,
            <<"w", "i", "s", "d", "o", "m", " ", "i", "n", " ", "c", "o", "n", "f", "l", "i", "c", "t">>,
            <<"s", "e", "l", "f", "-", "c", "o", "n", "t", "r", "o", "l">>,
            <<"p", "e", "a", "c", "e", "f", "u", "l", " ", "r", "e", "s", "o", "l", "u", "t", "i", "o", "n">>,
            <<"r", "e", "s", "t", "r", "a", "i", "n", "t", " ", "a", "n", "d", " ", "m", "o", "d", "e", "r", "a", "t", "i", "o", "n">>
          >>,
        keywords |->
          <<
            <<"a", "n", "g", "e", "r">>, <<"p", "a", "t", "i", "e", "n", "c", "e">>,
            <<"f", "o", "r", "g", "i", "v", "e", "n", "e", "s", "s">>,
            <<"b", "a", "l", "a", "n", "c", "e">>,
            <<"c", "o", "n", "t", "r", "o", "l">>, <<"p", "e", "a", "c", "e">>,
            <<"r", "e", "s", "t", "r", "a", "i", "n", "t">>
          >>],
       [id |-> "gratitude_contentment",
        themes |->
          <<
            <<"g", "r", "a", "t", "i", "t", "u", "d", "e", " ", "a", "n", "d", " ", "t", "h", "a", "n", "k", "f", "u", "l", "n", "e", "s", "s">>,
            <<"c", "o", "n", "t", "e", "n", "t", "m", "e", "n", "t", " ", "w", "i", "t", "h", " ", "p", "r", "o", "v", "i", "s", "i", "o", "n", "s">>,
            <<"c", "o", "u", "n", "t", "i", "n", "g", " ", "b", "l", "e", "s", "s", "i", "n", "g", "s">>,
            <<"s", "a", "t", "i", "s", "f", "a", "c", "t", "i", "o", "n", " ", "w", "i", "t", "h", " ", "f", "a", "t", "e">>,
            <<"a", "p", "p", "r", "e", "c", "i", "a", "t", "i", "o", "n", " ", "o", "f", " ", "l", "i", "f", "e">>,
            <<"s", "p", "i", "r", "i", "t", "u", "a", "l", " ", "w", "e", "a", "l", "t", "h">>,
            <<"i", "n", "n", "e", "r", " ", "r", "i", "c", "h", "n", "e", "s", "s">>,
            <<"d", "i", "v", "i", "n", "e", " ", "g", "e", "n", "e", "r", "o", "s", "i", "t", "y">>,
            <<"t", "h", "a", "n", "k", "f", "u", "l", " ", "h", "e", "a", "r", "t">>
          >>,
        keywords |->
          <<
            <<"g", "r", "a", "t", "i", "t", "u", "d", "e">>,
            <<"t", "h", "a", "n", "k", "f", "u", "l", "n", "e", "s", "s">>,
            <<"c", "o", "n", "t", "e", "n", "t", "m", "e", "n", "t">>,
            <<"b", "l", "e", "s", "s", "i", "n", "g", "s">>,
            <<"s", "a", "t", "i", "s", "f", "a", "c", "t", "i", "o", "n">>,
            <<"w", "e", "a", "l", "t", "h">>
          >>],
       [id |-> "fear_worry",
        themes |->
          <<
            <<"o", "v", "e", "r", "c", "o", "m", "i", "n", "g", " ", "f", "e", "a", "r">>,
            <<"t", "r", "u", "s", "t", " ", "i", "n", " ", "d", "i", "v", "i", "n", "e", " ", "p", "l", "a", "n">>,
            <<"c", "o", "u", "r", "a", "g", "e", " ", "a", "n", "d", " ", "b", "r", "a", "v", "e", "r", "y">>,
            <<"p", "r", "o", "t", "e", "c", "t", "i", "o", "n", " ", "f", "r", "o", "m", " ", "h", "a", "r", "m">>,
            <<"f", "a", "i", "t", "h", " ", "o", "v", "e", "r", " ", "f", "e", "a", "r">>,
            <<"d", "i", "v", "i", "n", "e", " ", "g", "u", "i", "d", "a", "n", "c", "e">>,
            <<"s", "t", "r", "e", "n", "g", "t", "h", " ", "i", "n", " ", "w", "e", "a", "k", "n", "e", "s", "s">>,
            <<"c", "o", "n", "f", "i", "d", "e", "n", "c", "e", " ", "i", "n", " ", "A", "l", "l", "a", "h">>,
            <<"f", "e", "a", "r", "l", "e", "s", "s", "n", "e", "s", "s">>
          >>,
        keywords |->
          <<
            <<"f", "e", "a", "r">>, <<"t", "r", "u", "s", "t">>,
            <<"c", "o", "u", "r", "a", "g", "e">>,
            <<"p", "r", "o", "t", "e", "c", "t", "i", "o", "n">>,
            <<"g", "u", "i", "d", "a", "n", "c", "e">>,
            <<"s", "t", "r", "e", "n", "g", "t", "h">>,
            <<"c", "o", "n", "f", "i", "d", "e", "n", "c", "e">>
          >>],
       [id |-> "spiritual_growth",
        themes |->
          <<
            <<"s", "p", "i", "r", "i", "t", "u", "a", "l", " ", "d", "e", "v", "e", "l", "o", "p", "m", "e", "n", "t">>,
            <<"c", "l", "o", "s", "e", "n", "e", "s", "s", " ", "t", "o", " ", "A", "l", "l", "a", "h">>,
            <<"p", "u", "r", "i", "f", "i", "c", "a", "t", "i", "o", "n", " ", "o", "f", " ", "s", "o", "u", "l">>,
            <<"r", "e", "m", "e", "m", "b", "r", "a", "n", "c", "e", " ", "o", "f", " ", "A", "l", "l", "a", "h">>,
            <<"s", "p", "i", "r", "i", "t", "u", "a", "l", " ", "d", "i", "s", "c", "i", "p", "l", "i", "n", "e">>,
            <<"i", "n", "n", "e", "r", " ", "t", "r", "a", "n", "s", "f", "o", "r", "m", "a", "t", "i", "o", "n">>,
            <<"d", "i", "v", "i", "n", "e", " ", "c", "o", "n", "n", "e", "c", "t", "i", "o", "n">>,
            <<"s", "p", "i", "r", "i", "t", "u", "a", "l", " ", "e", "n", "l", "i", "g", "h", "t", "e", "n", "m", "e", "n", "t">>,
            <<"s", "o", "u", "l", " ", "p", "u", "r", "i", "f", "i", "c", "a", "t", "i", "o", "n">>
          >>,
        keywords |->
          <<
            <<"s", "p", "i", "r", "i", "t", "u", "a", "l">>,
            <<"c", "l", "o", "s", "e", "n", "e", "s", "s">>,
            <<"p", "u", "r", "i", "f", "i", "c", "a", "t", "i", "o", "n">>,
            <<"r", "e", "m", "e", "m", "b", "r", "a", "n", "c", "e">>,
            <<"t", "r", "a", "n", "s", "f", "o", "r", "m", "a", "t", "i", "o", "n">>,
            <<"c", "o", "n", "n", "e", "c", "t", "i", "o", "n">>
          >>],
       [id |-> "life_purpose",
        themes |->
          <<
            <<"p", "u", "r", "p", "o", "s", "e", " ", "o", "f", " ", "l", "i", "f", "e">>,
            <<"m", "e", "a", "n", "i", "n", "g", " ", "a", "n", "d", " ", "s", "i", "g", "n", "i", "f", "i", "c", "a", "n", "c", "e">>,
            <<"d", "i", "v", "i", "n", "e", " ", "m", "i", "s", "s", "i", "o", "n">>,
            <<"l", "i", "f", "e", " ", "g", "o", "a", "l", "s">>,
            <<"s", "p", "i", "r", "i", "t", "u", "a", "l", " ", "p", "u", "r", "p", "o", "s", "e">>,
            <<"w", "o", "r", "l", "d", "l", "y", " ", "a", "n", "d", " ", "e", "t", "e", "r", "n", "a", "l", " ", "s", "u", "c", "c", "e", "s", "s">>,
            <<"f", "u", "l", "f", "i", "l", "l", "i", "n", "g", " ", "p", "o", "t", "e", "n", "t", "i", "a", "l">>,
            <<"s", "e", "r", "v", "i", "n", "g", " ", "h", "u", "m", "a", "n", "i", "t", "y">>,
            <<"w", "o", "r", "s", "h", "i", "p", " ", "a", "n", "d", " ", "s", "e", "r", "v", "i", "c", "e">>
          >>,
        keywords |->
          <<
            <<"p", "u", "r", "p", "o", "s", "e">>,
            <<"m", "e", "a", "n", "i", "n", "g">>,
            <<"m", "i", "s", "s", "i", "o", "n">>, <<"g", "o", "a", "l", "s">>,
            <<"s", "u", "c", "c", "e", "s", "s">>,
            <<"p", "o", "t", "e", "n", "t", "i", "a", "l">>,
            <<"s", "e", "r", "v", "i", "c", "e">>
          >>]
    >>

\* the texts a user sends
UserInputs ==
    {
      <<"I", " ", "f", "e", "e", "l", " ", "s", "o", " ", "a", "n",
        "x", "i", "o", "u", "s", " ", "a", "n", "d", " ", "s", "t",
        "r", "e", "s", "s", "e", "d", " ", "a", "b", "o", "u", "t",
        " ", "m", "y", " ", "e", "x", "a", "m">>,
      <<>>,
      <<"I", " ", "n", "e", "e", "d", " ", "P", "E", "A", "C", "E",
        " ", "a", "n", "d", " ", "p", "a", "t", "i", "e", "n", "c",
        "e">>,
      <<"c", "o", "m", "f", "o", "r", "t", " ", "s", "t", "r", "e",
        "n", "g", "t", "h", " ", "p", "a", "t", "i", "e", "n", "c",
        "e", " ", "p", "u", "r", "p", "o", "s", "e">>,
      <<"h", "o", "p", "e">>,
      <<"m", "y", " ", "h", "e", "a", "r", "t">>,
      <<"i", "n", " ", "a", "n", "d", " ", "o", "f">>,
      <<"d", "i", "s", "t", "r", "u", "s", "t">>
    }

RECURSIVE Split(_, _)
\* str.split(): the runs of non-blank characters, cur being the run read so far
Split(str, cur) ==
    IF str = <<>> THEN (IF cur = <<>> THEN <<>> ELSE <<cur>>)
    ELSE IF Head(str) = " "
         THEN (IF cur = <<>> THEN <<>> ELSE <<cur>>) \o Split(Tail(str), <<>>)
         ELSE Split(Tail(str), Append(cur, Head(str)))

RECURSIVE KeywordScoreOne(_, _)
\* a variant that adds 1 for a keyword
KeywordScoreOne(keywords, user_input_lower) ==
    IF keywords = <<>> THEN 0
    ELSE (IF In(Head(keywords), user_input_lower) THEN 1 ELSE 0)
         + KeywordScoreOne(Tail(keywords), user_input_lower)

RECURSIVE KeywordScore(_, _)
\* the loop over category_data["keywords"]: 2 for each keyword in the text
KeywordScore(keywords, user_input_lower) ==
    IF keywords = <<>> THEN 0
    ELSE (IF In(Head(keywords), user_input_lower) THEN 2 ELSE 0)
         + KeywordScore(Tail(keywords), user_input_lower)

RECURSIVE WordScore(_, _)
\* the loop over theme_words: 1 for each word longer than 3 in the text
WordScore(theme_words, user_input_lower) ==
    IF theme_words = <<>> THEN 0
    ELSE (IF Len(Head(theme_words)) > 3 /\ In(Head(theme_words), user_input_lower)
          THEN 1 ELSE 0)
         + WordScore(Tail(theme_words), user_input_lower)

RECURSIVE ThemeScore(_, _)
\* the loop over category_data["themes"]
ThemeScore(themes, user_input_lower) ==
    IF themes = <<>> THEN 0
    ELSE WordScore(Split(Lower(Head(themes)), <<>>), user_input_lower)
         + ThemeScore(Tail(themes), user_input_lower)

RECURSIVE InsertDetected(_, _)
InsertDetected(sorted, c) ==
    IF sorted = <<>> THEN <<c>>
    ELSE IF sorted[1].relevance_score >= c.relevance_score
         THEN <<sorted[1]>> \o InsertDetected(Tail(sorted), c)
         ELSE <<c>> \o sorted

RECURSIVE SortDetected(_)
\* detected.sort(key=lambda x: x["relevance_score"], reverse=True)
SortDetected(detected) ==
    IF detected = <<>> THEN <<>>
    ELSE InsertDetected(SortDetected(SubSeq(detected, 1, Len(detected) - 1)),
                        detected[Len(detected)])

\* _detect_wellness_categories(user_input)
DetectWellnessCategories(user_input) ==
    LET user_input_lower == Lower(user_input)
        scored == SubSeq([k \in 1..Len(WellnessCategories) |->
                            [id |-> WellnessCategories[k].id,
                             relevance_score |->
                                 KeywordScore(WellnessCategories[k].keywords,
                                              user_input_lower)
                                 + ThemeScore(WellnessCategories[k].themes,
                                              user_input_lower)]],
                         1, Len(WellnessCategories))
        detected == SelectSeq(scored, LAMBDA c : c.relevance_score > 0)
    IN  Truncate(SortDetected(detected), 3)

DoDetectWellnessCategories ==
    /\ \E user_input \in UserInputs :
         \E r \in {DetectWellnessCategories(user_input)} :
             last' = [op |-> "_detect_wellness_categories", user_input |-> user_input,
                      exc |-> "", ret |-> r]
    /\ UNCHANGED <<store, disk, shared, clock, threads, service, wellness_service>>

-----------------------------------------------------------------------------
(* WellnessService.get_category_verses *)

CategoryIds ==
    {"anxiety_stress", "grief_loss", "no_such_category"}

MaxVerses == {0, 1, 2, 10}

\* the similarities of the passages to the k-th phrase searched: another
\* phrase ranks the passages differently
SimsOfTheme(es, k) ==
    [es EXCEPT !.sims = [i \in 1..Len(es.sims) |->
                            es.sims[((i + k - 2) % Len(es.sims)) + 1]]]

\* the loop over category["themes"] from the k-th phrase on: all_verses and the
\* phrases the retriever was called with; an exception of the retriever ends it
RECURSIVE SearchCategoryThemes(_, _, _, _, _, _, _)
SearchCategoryThemes(svc, themes, k, es, loads, all_verses, searched) ==
    IF k > Len(themes)
    THEN [exc |-> "", all_verses |-> all_verses, searched |-> searched, service |-> svc]
    ELSE LET r == SearchVersesByTheme(svc, themes[k], 3, SimsOfTheme(es, k), loads)
         IN  IF r.out.exc # ""
             THEN [exc |-> r.out.exc, all_verses |-> all_verses,
                   searched |-> Append(searched, themes[k]), service |-> r.service]
             ELSE SearchCategoryThemes(r.service, themes, k + 1, es, loads,
                                       all_verses \o r.out.ret,
                                       Append(searched, themes[k]))

\* verse.get('verse_number', verse.get('id', ''))
VerseKey(verse) == GetField(verse, "verse_number", GetField(verse, "id", <<>>))

\* the loop that removes duplicates: the limit is tested after an append
RECURSIVE UniqueVerses(_, _, _, _)
UniqueVerses(all_verses, seen_verses, unique_verses, max_verses) ==
    IF all_verses = <<>> THEN unique_verses
    ELSE LET verse_key == VerseKey(Head(all_verses))
         IN  IF verse_key # <<>> /\ verse_key \notin seen_verses
             THEN IF Len(unique_verses) + 1 >= max_verses
                  THEN Append(unique_verses, Head(all_verses))
                  ELSE UniqueVerses(Tail(all_verses), seen_verses \cup {verse_key},
                                    Append(unique_verses, Head(all_verses)), max_verses)
             ELSE UniqueVerses(Tail(all_verses), seen_verses, unique_verses, max_verses)

\* get_category_verses(category_id, max_verses): the outcome, the service
\* afterwards, and all_verses and the phrases searched
GetCategoryVerses(svc, category_id, max_verses, es, loads) ==
    LET known == {i \in 1..Len(WellnessCategories) :
                     WellnessCategories[i].id = category_id}
    IN  IF known = {}
        THEN [out |-> Returned([error |-> "Invalid wellness category"]),
              service |-> svc, all_verses |-> <<>>, searched |-> <<>>]
        ELSE LET category == WellnessCategories[CHOOSE i \in known : TRUE]
                 s == SearchCategoryThemes(svc, category.themes, 1, es, loads,
                                           <<>>, <<>>)
                 all_verses == s.all_verses
                 unique_verses == UniqueVerses(all_verses, {}, <<>>, max_verses)
             IN  IF s.exc # ""
                 THEN [out |-> Raised(s.exc), service |-> s.service,
                       all_verses |-> all_verses, searched |-> s.searched]
                 ELSE [out |-> Returned([category |-> [id |-> category.id],
                                         verses |-> unique_verses,
                                         total_verses |-> Len(unique_verses)]),
                       service |-> s.service, all_verses |-> all_verses,
                       searched |-> s.searched]

DoGetCategoryVerses ==
    /\ \E category_id \in CategoryIds, max_verses \in MaxVerses,
          loads \in (IF embedding_service = 0 THEN BOOLEAN ELSE {TRUE}) :
         \E r \in {GetCategoryVerses(TheService, category_id, max_verses,
                                      embeddings, loads)} :
             /\ SetService(r.service)
             /\ last' = [op |-> "get_category_verses", category_id |-> category_id,
                         max_verses |-> max_verses, exc |-> r.out.exc,
                         ret |-> r.out.ret, all_verses |-> r.all_verses,
                         searched |-> r.searched]
    /\ UNCHANGED <<store, disk, shared, clock, threads, embeddings, qdrant,
                   wellness_service>>

\* calls of the WellnessService methods, one after the other
NextWellness ==
    \/ DoDetectWellnessCategories
    \/ DoGetCategoryVerses

SpecWellness == InitVerses /\ [][NextWellness]_vars

-----------------------------------------------------------------------------------------------------------------------------------------------------
(* EmbeddingService.__init__ and _load_model, statement by statement; each
   thread constructs an EmbeddingService of its own *)

FallbackModel == "paraphrase-multilingual-mpnet-base-v2"

\* the model_name argument: the default, the fallback's own name, another
ModelNames == {"paraphrase-multilingual-MiniLM-L12-v2", FallbackModel, "custom-model"}

\* __init__ up to the call of _load_model: self.model = None
LoadStart(t) ==
    /\ frame[t].op = "idle"
    /\ \E model_name \in ModelNames :
         frame' = [frame EXCEPT ![t] = [op |-> "EmbeddingService", pc |-> "try",
                                        model_name |-> model_name, model |-> "",
                                        attempts |-> <<>>, failures |-> 0]]
    /\ UNCHANGED <<store, disk, shared, clock, last, lock, service, wellness_service>>

\* a variant of the first except clause that gives up at once
AfterFailureRaise(f, model) ==
    [f EXCEPT !.pc = "raised", !.attempts = Append(@, model), !.failures = @ + 1]

\* the first except clause is entered: the fallback is tried next
AfterFailure(f, model) ==
    [f EXCEPT !.pc = "fallback", !.attempts = Append(@, model), !.failures = @ + 1]

\* try: self.model = SentenceTransformer(self.model_name), which loads or raises
LoadConfigured(t) ==
    /\ frame[t].op = "EmbeddingService" /\ frame[t].pc = "try"
    /\ \E loads \in BOOLEAN :
         frame' = [frame EXCEPT ![t] =
                      IF loads
                      THEN [frame[t] EXCEPT !.pc = "loaded",
                                            !.model = frame[t].model_name,
                                            !.attempts = <<frame[t].model_name>>]
                      ELSE AfterFailure(frame[t], frame[t].model_name)]
    /\ UNCHANGED <<store, disk, shared, clock, last, lock, service, wellness_service>>

\* except: try: self.model = SentenceTransformer(<fallback>); except: raise e2
LoadFallback(t) ==
    /\ frame[t].op = "EmbeddingService" /\ frame[t].pc = "fallback"
    /\ \E loads \in BOOLEAN :
         frame' = [frame EXCEPT ![t] =
                      IF loads
                      THEN [frame[t] EXCEPT !.pc = "loaded", !.model = FallbackModel,
                                            !.attempts = Append(@, FallbackModel)]
                      ELSE [frame[t] EXCEPT !.pc = "raised",
                                            !.attempts = Append(@, FallbackModel),
                                            !.failures = @ + 1]]
    /\ UNCHANGED <<store, disk, shared, clock, last, lock, service, wellness_service>>

\* __init__ returns the object, or the exception reaches the caller
LoadEnd(t) ==
    /\ frame[t].op = "EmbeddingService" /\ frame[t].pc \in {"loaded", "raised"}
    /\ frame' = [frame EXCEPT ![t] = [op |-> "idle", pc |-> 0]]
    /\ last' = [op |-> "EmbeddingService", thread |-> t,
                exc |-> IF frame[t].pc = "raised" THEN "Exception" ELSE "",
                ret |-> frame[t].model]
    /\ UNCHANGED <<store, disk, shared, clock, lock, service, wellness_service>>

NextLoad ==
    \E t \in Threads : LoadStart(t) \/ LoadConfigured(t) \/ LoadFallback(t) \/ LoadEnd(t)

SpecLoad == InitVerses /\ [][NextLoad]_vars

-----------------------------------------------------------------------------
(* VectorStore.search with filter_metadata, over records whose metadata values
   are numbers and lists *)

\* a metadata or filter value: the number n, or the list of the numbers of s
Num(n) == [islist |-> FALSE, items |-> <<n>>]

List(s) == [islist |-> TRUE, items |-> s]

\* metadata dicts of the records: with a number, with a list, without the key
FilterMetas ==
    {[surah_number |-> Num(1), tags |-> Num(1)],
     [surah_number |-> Num(1), tags |-> List(<<1, 2>>)],
     [surah_number |-> Num(2), tags |-> Num(2)],
     [surah_number |-> Num(2)]}

\* filter_metadata arguments: None, {}, one key, two keys, lists, an unknown key
FilterDicts ==
    <<NoFilter,
     Filter(EmptyDict),
     Filter([surah_number |-> Scalar(Num(1))]),
     Filter([surah_number |-> ListOf({Num(1), Num(2)})]),
     Filter([tags |-> Scalar(Num(1))]),
     Filter([tags |-> ListOf({Num(1), Num(2)})]),
     Filter([tags |-> ListOf({List(<<1, 2>>), Num(2)})]),
     Filter([surah_number |-> Scalar(Num(1)), tags |-> ListOf({Num(1), Num(2)})]),
     Filter([surah_number |-> Scalar(Num(2)), tags |-> Scalar(Num(2))]),
     Filter([juz |-> Scalar(Num(1))])>>

\* a store to which one batch of two records was added
InitFilter ==
    /\ \E m1 \in FilterMetas, m2 \in FilterMetas :
         LET st == AddVectors(EmptyStore, << <<3, 4>>, <<4, 3>> >>, 2, <<m1, m2>>,
                              NoIds, 1).store
         IN  /\ vectors = st.vectors
             /\ metadata = st.metadata
             /\ index = st.index
             /\ dimension = st.dimension
    /\ vectors_file = NoFile
    /\ metadata_file = NoFile
    /\ index_file = NoFile
    /\ shared \in [1..NumShared -> NewMetas]
    /\ clock = 2
    /\ last = [op |-> "add_vectors"]
    /\ lock = [owner |-> 0, count |-> 0]
    /\ frame = [t \in 1..NumThreads |-> [op |-> "idle", pc |-> 0]]
    /\ embedding_service = 0
    /\ vector_store_manager = 0
    /\ verse_store = 0
    /\ objects = [EmbeddingService |-> 0, VectorStoreManager |-> 0, VectorStore |-> 0]
    /\ embeddings = [encodes |-> FALSE, loaded |-> FALSE, sims |-> <<>>]
    /\ qdrant = [available |-> FALSE]
    /\ wellness_service = [instance |-> 0, initialized |-> FALSE, db |-> 0]

DoSearchFiltered ==
    /\ \E f \in 1..Len(FilterDicts), top_k \in TopKs :
         LET filter == FilterDicts[f]
             r == Search(Current, shared, <<3, 4>>, top_k, 0, filter)
         IN  last' = [op |-> "search", query_vector |-> <<3, 4>>, top_k |-> top_k,
                      min_similarity |-> 0, filter |-> filter,
                      exc |-> r.exc, ret |-> r.ret]
    /\ UNCHANGED <<store, disk, shared, clock, threads, service, wellness_service>>

NextFilter == DoSearchFiltered

SpecFilter == InitFilter /\ [][NextFilter]_vars

-----------------------------------------------------------------------------
(* search_chapters_by_theme over two passages of chapter 5, a chapter of 10
   passages, retrieved with the similarities 0.9 and 0.7 *)

\* "patience", as the caller may write it
Patience == <<"p", "a", "t", "i", "e", "n", "c", "e">>

PatienceThemes == {Patience, <<"P", "a", "t", "i", "e", "n", "c", "e">>}

\* texts of a passage: with the word, with it capitalized, with a related word
\* only, without it
PatienceTexts ==
    {<<"p", "a", "t", "i", "e", "n", "c", "e", " ", "i", "s", " ", "l", "i", "g", "h", "t">>,
     <<"P", "a", "t", "i", "e", "n", "c", "e", " ", "a", "n", "d", " ", "p", "r", "a", "y", "e", "r">>,
     <<"b", "e", " ", "p", "a", "t", "i", "e", "n", "t">>,
     <<"t", "h", "e", " ", "t", "a", "b", "l", "e", " ", "s", "p", "r", "e", "a", "d">>}

PatiencePassage(verse_id, text) ==
    [verse_id |-> verse_id, verse_number |-> verse_id, surah_number |-> 5,
     surah_name |-> <<"M", "a", "i", "d", "a", "h">>, analysis |-> text, translation |-> text,
     arabic_text |-> <<"s", "a", "b", "r">>, number_of_verses |-> 10,
     revelation_place |-> <<"M", "e", "d", "i", "n", "a">>]

\* the embeddings hold the two passages, in either order
PatienceStates ==
    {[encodes |-> TRUE, loaded |-> TRUE, sims |-> sims,
      verse_metadata |-> <<PatiencePassage(<<"5", ":", "1">>, t1), PatiencePassage(<<"5", ":", "2">>, t2)>>] :
        sims \in {<<90, 70>>, <<70, 90>>}, t1 \in PatienceTexts, t2 \in PatienceTexts}

InitPatience ==
    /\ vectors = NoneArr
    /\ metadata = <<>>
    /\ index = EmptyDict
    /\ dimension = NoneDim
    /\ vectors_file = NoFile
    /\ metadata_file = NoFile
    /\ index_file = NoFile
    /\ shared \in [1..NumShared -> NewMetas]
    /\ clock = 1
    /\ last = [op |-> "__init__"]
    /\ lock = [owner |-> 0, count |-> 0]
    /\ frame = [t \in 1..NumThreads |-> [op |-> "idle", pc |-> 0]]
    /\ embedding_service = 0
    /\ vector_store_manager = 0
    /\ verse_store = 0
    /\ objects = [EmbeddingService |-> 0, VectorStoreManager |-> 0, VectorStore |-> 0]
    /\ embeddings \in PatienceStates
    /\ qdrant = [available |-> FALSE]
    /\ wellness_service = [instance |-> 0, initialized |-> FALSE, db |-> 0]

DoSearchChaptersPatience ==
    /\ \E theme \in PatienceThemes, max_results \in MaxResults,
          loads \in (IF embedding_service = 0 THEN BOOLEAN ELSE {TRUE}) :
         \E r \in {SearchChaptersByTheme(TheService, theme, max_results, embeddings,
                                        loads, qdrant)} :
             /\ SetService(r.service)
             /\ last' = [op |-> "search_chapters_by_theme", theme |-> theme,
                         max_results |-> max_results, path |-> r.path,
                         exc |-> r.out.exc, ret |-> r.out.ret]
    /\ UNCHANGED <<store, disk, shared, clock, threads, embeddings, qdrant,
                   wellness_service>>

NextPatience == DoSearchChaptersPatience

SpecPatience == InitPatience /\ [][NextPatience]_vars

-----------------------------------------------------------------------------
(* search_verses_by_theme in a process started on a directory in which an
   earlier process (initialize_embeddings.py) added verses to the "verses"
   store and saved it *)

\* the artifacts after add_vectors of one batch and save()
SavedVerses ==
    {Save(AddVectors(EmptyStore, b.vectors, b.width, b.metadata, b.ids, 0).store,
          <<>>, DiskRec(NoFile, NoFile, NoFile)) : b \in Batches(MaxRows)}

\* the service has no handles yet; the EmbeddingService it will construct sets
\* verse_embeddings = None and loads nothing
InitIndexed ==
    /\ \E dk \in SavedVerses :
         /\ vectors_file = dk.vectors_file
         /\ metadata_file = dk.metadata_file
         /\ index_file = dk.index_file
    /\ vectors = NoneArr
    /\ metadata = <<>>
    /\ index = EmptyDict
    /\ dimension = NoneDim
    /\ shared \in [1..NumShared -> NewMetas]
    /\ clock = 1
    /\ last = [op |-> "__init__"]
    /\ lock = [owner |-> 0, count |-> 0]
    /\ frame = [t \in 1..NumThreads |-> [op |-> "idle", pc |-> 0]]
    /\ embedding_service = 0
    /\ vector_store_manager = 0
    /\ verse_store = 0
    /\ objects = [EmbeddingService |-> 0, VectorStoreManager |-> 0, VectorStore |-> 0]
    /\ embeddings \in {[encodes |-> e, loaded |-> FALSE, sims |-> <<>>] : e \in BOOLEAN}
    /\ qdrant = [available |-> FALSE]
    /\ wellness_service = [instance |-> 0, initialized |-> FALSE, db |-> 0]

\* search_verses_by_theme; get_store("verses") constructs the VectorStore, which
\* loads the artifacts
DoSearchVersesIndexed ==
    /\ \E theme \in Themes, max_results \in MaxResults,
          loads \in (IF embedding_service = 0 THEN BOOLEAN ELSE {TRUE}) :
         LET r == SearchVersesByTheme(TheService, theme, max_results, embeddings, loads)
         IN  /\ SetService(r.service)
             /\ IF verse_store = 0 /\ r.service.verse_store # 0
                THEN SetStore(Construct(OnDisk))
                ELSE UNCHANGED store
             /\ last' = [op |-> "search_verses_by_theme", theme |-> theme,
                         max_results |-> max_results,
                         exc |-> r.out.exc, ret |-> r.out.ret]
    /\ UNCHANGED <<disk, shared, clock, threads, embeddings, qdrant, wellness_service>>

NextIndexed == DoSearchVersesIndexed

SpecIndexed == InitIndexed /\ [][NextIndexed]_vars

-----------------------------------------------------------------------------
(* The WellnessService singleton used by concurrent requests, statement by
   statement. Session t is the database session request thread t got from
   get_db(); 0 is None. *)

\* the routes: wellness_checkin constructs WellnessService(db=db) and tracks
\* the progress, get_wellness_categories constructs WellnessService()
WellnessRoutes == {"wellness_checkin", "get_wellness_categories"}

\* the request begins: db = next(get_db()), or no session at all
WsRequest(t) ==
    /\ frame[t].op = "idle"
    /\ \E route \in WellnessRoutes :
         frame' = [frame EXCEPT ![t] =
                      [op |-> route, pc |-> "__new__",
                       db |-> IF route = "wellness_checkin" THEN t ELSE 0,
                       used |-> <<>>, exc |-> ""]]
    /\ UNCHANGED <<store, disk, shared, clock, last, lock, service, wellness_service>>

\* __new__: the instance is created once
WsNew(t) ==
    /\ frame[t].op \in WellnessRoutes /\ frame[t].pc = "__new__"
    /\ wellness_service' = [wellness_service EXCEPT !.instance = 1]
    /\ frame' = [frame EXCEPT ![t].pc = "__init__"]
    /\ UNCHANGED <<store, disk, shared, clock, last, lock, service>>

\* __init__: the categories are set up once, self.db = db every time
WsInitFields(ws, db) == [ws EXCEPT !.initialized = TRUE, !.db = db]

WsInit(t) ==
    /\ frame[t].op \in WellnessRoutes /\ frame[t].pc = "__init__"
    /\ wellness_service' = WsInitFields(wellness_service, frame[t].db)
    /\ frame' = [frame EXCEPT ![t].pc = IF frame[t].op = "wellness_checkin"
                                        THEN "add" ELSE "return"]
    /\ UNCHANGED <<store, disk, shared, clock, last, lock, service>>

\* track_wellness_progress: self.db.add, self.db.commit, self.db.refresh, each
\* on the session self.db names at that moment; on None the except clause runs
WsSession(t) ==
    /\ frame[t].op = "wellness_checkin"
    /\ frame[t].pc \in {"add", "commit", "refresh"}
    /\ frame' = [frame EXCEPT ![t] =
                    IF wellness_service.db = 0
                    THEN [frame[t] EXCEPT !.pc = "rollback"]
                    ELSE [frame[t] EXCEPT
                             !.used = Append(@, wellness_service.db),
                             !.pc = IF frame[t].pc = "add" THEN "commit"
                                    ELSE IF frame[t].pc = "commit" THEN "refresh"
                                    ELSE "return"]]
    /\ UNCHANGED <<store, disk, shared, clock, last, lock, service, wellness_service>>

\* except Exception: self.db.rollback(), which raises in its turn on None
WsRollback(t) ==
    /\ frame[t].op = "wellness_checkin" /\ frame[t].pc = "rollback"
    /\ frame' = [frame EXCEPT ![t] =
                    IF wellness_service.db = 0
                    THEN [frame[t] EXCEPT !.pc = "return", !.exc = "AttributeError"]
                    ELSE [frame[t] EXCEPT !.pc = "return",
                                          !.used = Append(@, wellness_service.db)]]
    /\ UNCHANGED <<store, disk, shared, clock, last, lock, service, wellness_service>>

\* the route returns its response
WsReturn(t) ==
    /\ frame[t].op \in WellnessRoutes /\ frame[t].pc = "return"
    /\ last' = [op |-> frame[t].op, thread |-> t, exc |-> frame[t].exc,
                ret |-> frame[t].used]
    /\ frame' = [frame EXCEPT ![t] = [op |-> "idle", pc |-> 0]]
    /\ UNCHANGED <<store, disk, shared, clock, lock, service, wellness_service>>

NextSingleton ==
    \E t \in Threads :
        \/ WsRequest(t)
        \/ WsNew(t)
        \/ WsInit(t)
        \/ WsSession(t)
        \/ WsRollback(t)
        \/ WsReturn(t)

SpecSingleton == Init /\ [][NextSingleton]_vars

-----
(* Shared notions of the properties. *)

\* the ids a store may resolve
KnownIds(st) == AllIds \cup DOMAIN st.index

\* the three structures have one length
LengthsAgree ==
    /\ RowCount = Len(metadata)
    /\ Len(metadata) = Cardinality(DOMAIN index)

\* the content of the 0-based row i of self.metadata
MetaAt(i) == Deref(metadata[i + 1], shared)

-----------------------------------------------------------------------------
(* C1 *)

\* C1: in every state reached by add_vectors, delete, update_metadata and clear,
\* the number of vector rows, of metadata entries and of index entries are equal.
C1Claim == LengthsAgree

-----------------------------------------------------------------------------
(* C3 *)

\* C3: after add_vectors calls with ids omitted, interleaved with delete calls,
\* no two metadata rows carry the same id, and the index leads to every row.
C3Claim ==
    /\ \A i, j \in 0..(Len(metadata) - 1) : i # j => MetaAt(i)["id"] # MetaAt(j)["id"]
    /\ \A i \in 0..(Len(metadata) - 1) :
         /\ MetaAt(i)["id"] \in DOMAIN index
         /\ index[MetaAt(i)["id"]] = i

-----------------------------------------------------------------------------
(* C2 *)

\* C2: search never returns a record whose stored vector has zero norm, and
\* every returned score is the quotient dot / (norm * norm) of two nonzero norms.
C2Claim ==
    (last.op = "search" /\ last.exc = "") =>
        \A k \in 1..Len(last.ret) :
            /\ Norm(vectors.rows[last.ret[k].i + 1]) > 0
            /\ Norm(last.query_vector) > 0
            /\ last.ret[k].score = Cosine(vectors.rows[last.ret[k].i + 1], last.query_vector)

-----------------------------------------------------------------------------
(* C4 *)

\* C4: an add_vectors call whose batch width differs from the width of a store
\* that has vectors raises an error and leaves vectors, metadata, index and
\* dimension (and the artifacts) as they were.
C4Rejects ==
    [][(last'.op = "add_vectors" /\ ~vectors.none /\ last'.width # dimension)
          => (last'.exc = "ValueError" /\ UNCHANGED <<store, disk, shared>>)]_vars

\* a batch of another width was rejected by a store that holds records
C4Witness ==
    /\ last.op = "add_vectors"
    /\ last.exc = "ValueError"
    /\ last.width # dimension
    /\ Len(metadata) > 0
    /\ RowCount > 0

-----------------------------------------------------------------------------
(* C5 *)

\* C5: after delete(id) returns True, get_by_id(id) returns None, the store
\* holds one record fewer, every remaining id maps to the row that holds its own
\* metadata, and no index entry points at or past the new length.
C5Claim ==
    [][(last'.op = "delete" /\ last'.exc = "" /\ last'.ret = TRUE) =>
          LET after == StoreRec(vectors', metadata', index', dimension')
          IN  /\ GetById(after, shared', last'.vector_id) = Returned([found |-> FALSE])
              /\ Len(metadata') = Len(metadata) - 1
              /\ Len(vectors'.rows) = Len(vectors.rows) - 1
              /\ \A id \in DOMAIN index' :
                   /\ index'[id] < Len(metadata')
                   /\ Deref(metadata'[index'[id] + 1], shared')["id"] = id]_vars

-----------------------------------------------------------------------------
(* C6 *)

\* what get_by_id returns for every id
Resolution(st, sh) == [id \in KnownIds(st) \cup KnownIds(Current) |-> GetById(st, sh, id)]

\* C6: in every reachable state, save() followed by the construction of a new
\* VectorStore on the same directory gives a store in which the same ids resolve
\* to the same vectors and metadata.
C6SaveLoad ==
    Resolution(Construct(Save(Current, shared, OnDisk)), shared)
        = Resolution(Current, shared)

\* a store constructed on a directory that was saved, cleared and saved again:
\* the old vector file is still there, beside an empty metadata and index file
C6Witness ==
    /\ last.op = "__init__"
    /\ index_file.exists /\ index_file.data = EmptyDict
    /\ metadata_file.exists /\ metadata_file.data = <<>>
    /\ vectors_file.exists /\ Len(vectors_file.data.rows) > 0
    /\ OnDisk = Save(Current, shared, OnDisk)

-----------------------------------------------------------------------------
(* C7 *)

\* the rows an artifact holds; an absent artifact holds none
FileSize(f, n) == IF f.exists THEN n ELSE 0

\* the three artifacts do not hold the same number of records
ArtifactsDisagree ==
    LET v == FileSize(vectors_file, Len(vectors_file.data.rows))
        m == FileSize(metadata_file, Len(metadata_file.data))
        x == FileSize(index_file, Cardinality(DOMAIN index_file.data))
    IN  v # m \/ m # x

\* C7: when the artifacts disagree in size, load() leaves the store empty; a
\* load never ends with vector rows, metadata and index of different sizes.
C7Claim ==
    (last.op \in {"__init__", "load", "crash"}) =>
        /\ ArtifactsDisagree => (RowCount = 0 /\ metadata = <<>> /\ index = EmptyDict)
        /\ LengthsAgree

-----------------------------------------------------------------------------
(* C8 *)

\* the 0-based rows that have a score (their vector and the query have nonzero
\* norm) of at least min_similarity, and pass the filter
Qualifying(query_vector, min_similarity, filter) ==
    {i \in 0..(Len(metadata) - 1) :
        /\ i < RowCount
        /\ Norm(query_vector) > 0
        /\ Norm(vectors.rows[i + 1]) > 0
        /\ Cosine(vectors.rows[i + 1], query_vector) >= min_similarity
        /\ (filter.none \/ MatchesFilter(MetaAt(i), filter.dict))}

\* row i ranks before row j: a higher score, or an equal score and added earlier
RanksBefore(i, j, q) ==
    LET si == Cosine(vectors.rows[i + 1], q)
        sj == Cosine(vectors.rows[j + 1], q)
    IN  si > sj \/ (si = sj /\ i < j)

\* C8: search raises nothing and returns exactly the records whose score is at
\* least min_similarity and that pass the filter, by descending score, equal
\* scores in insertion order, cut to the first top_k (the empty list when no
\* record qualifies).
C8Claim ==
    (last.op = "search") =>
        /\ last.exc = ""
        /\ LET q == last.query_vector
               Q == Qualifying(q, last.min_similarity, last.filter)
               got == {last.ret[k].i : k \in 1..Len(last.ret)}
           IN  /\ Len(last.ret) = (IF Cardinality(Q) < last.top_k THEN Cardinality(Q)
                                   ELSE last.top_k)
               /\ got \subseteq Q
               /\ \A k \in 1..Len(last.ret) :
                    /\ last.ret[k].score = Cosine(vectors.rows[last.ret[k].i + 1], q)
                    /\ last.ret[k].id = MetaAt(last.ret[k].i)["id"]
                    /\ last.ret[k].metadata = MetaAt(last.ret[k].i)
               /\ \A k, l \in 1..Len(last.ret) :
                    k < l => RanksBefore(last.ret[k].i, last.ret[l].i, q)
               /\ \A k \in 1..Len(last.ret) : \A j \in Q \ got :
                    RanksBefore(last.ret[k].i, j, q)

-----------------------------------------------------------------------------
(* C9 *)

\* C9: right after add_vectors returns its ids, get_by_id of each returns the
\* vector inserted at that batch position and the supplied metadata plus `id`
\* and `added_at`.
C9Claim ==
    (last.op = "add_vectors" /\ last.exc = "") =>
        \A k \in 1..Len(last.ret) :
            GetById(Current, shared, last.ret[k])
                = Returned([found |-> TRUE,
                            vector |-> last.vectors[k],
                            metadata |-> DictSet(DictSet(last.metadata[k], "added_at",
                                                         last.now),
                                                 "id", last.ret[k])])

-----------------------------------------------------------------------------
(* C10 *)

\* C10: an update_metadata call on an existing id leaves the record's `id` that
\* id and its `added_at` what it was, whatever new_metadata held, and changes no
\* vector row, no other record's metadata and no index entry.
C10Claim ==
    [][(last'.op = "update_metadata" /\ last'.exc = "" /\ last'.ret = TRUE) =>
          LET idx == index[last'.vector_id]
          IN  /\ Deref(metadata'[idx + 1], shared')["id"] = last'.vector_id
              /\ Deref(metadata'[idx + 1], shared')["added_at"] = MetaAt(idx)["added_at"]
              /\ vectors' = vectors
              /\ index' = index
              /\ Len(metadata') = Len(metadata)
              /\ \A j \in 0..(Len(metadata) - 1) :
                   j # idx => Deref(metadata'[j + 1], shared') = MetaAt(j)]_vars

-----------------------------------------------------------------------------
(* C11 *)

\* no index entry and no metadata row names the id
NotInStore(vector_id) ==
    /\ vector_id \notin DOMAIN index
    /\ \A i \in 0..(Len(metadata) - 1) : MetaAt(i)["id"] # vector_id

\* C11: delete, get_by_id and update_metadata called with an id that is not in
\* the store return False, None and False, raise nothing, and leave vectors,
\* metadata, index (and the files and the caller's dict) as they were.
C11NotFound ==
    [][(last'.op \in {"delete", "get_by_id", "update_metadata"}
          /\ NotInStore(last'.vector_id)) =>
          /\ last'.exc = ""
          /\ last'.ret = (IF last'.op = "get_by_id" THEN [found |-> FALSE] ELSE FALSE)
          /\ UNCHANGED <<store, disk, shared>>]_vars

C11Witness ==
    /\ last.op = "update_metadata"
    /\ last.exc = ""
    /\ last.ret = FALSE
    /\ last.new_metadata.ref > 0
    /\ Len(metadata) > 0
    /\ NotInStore(last.vector_id)

-----------------------------------------------------------------------------
(* C12 *)

\* thread t is inside a store method
Inside(t) == frame[t].op # "idle"

\* C12: every public method holds the store's one reentrant lock for as long as
\* it runs: a thread inside a method holds the lock and no other thread is
\* inside any method, so no method reads or writes vectors, metadata, index or
\* the artifacts between two statements of another.
C12Claim ==
    \A t \in Threads :
        Inside(t) => /\ lock.owner = t
                     /\ \A u \in Threads \ {t} : ~Inside(u)

\* a thread is between two statements of save() or delete()
C12Witness ==
    \E t \in Threads :
        /\ frame[t].op \in {"save", "delete"}
        /\ frame[t].pc = 2
        /\ RowCount > 0
        /\ lock.owner = t

-----------------------------------------------------------------------------
(* C13 *)

\* C13: the lazy initialization happens at most once: however the first
\* searches of several threads interleave, one EmbeddingService and one
\* VectorStoreManager are constructed, and all calls use the same handle.
C13Claim ==
    /\ objects.EmbeddingService <= 1
    /\ objects.VectorStoreManager <= 1
    /\ \A t, u \in Threads :
         (/\ frame[t].op \in SearchMethods /\ frame[t].pc = "return"
          /\ frame[u].op \in SearchMethods /\ frame[u].pc = "return")
            => frame[t].used = frame[u].used

-----------------------------------------------------------------------------
(* C14 *)

\* the passage matches the theme by substring: in its text, its translation or
\* its chapter name, all lowercased
SubstringMatch(passage, theme) ==
    \/ In(Lower(theme), Lower(passage.arabic_text))
    \/ In(Lower(theme), Lower(passage.translation))
    \/ In(Lower(theme), Lower(passage.surah_name))

RECURSIVE SubstringFallback(_, _)
\* the verse ids of the passages from position i on that match, in source order
SubstringFallback(theme, i) ==
    IF i > Len(Passages) THEN <<>>
    ELSE IF SubstringMatch(Passages[i], theme)
         THEN <<Passages[i].verse_id>> \o SubstringFallback(theme, i + 1)
         ELSE SubstringFallback(theme, i + 1)

\* the semantic path of the call raised or found nothing
SemanticFailed(es, max_results) ==
    LET r == FindSimilarVerses(es, max_results, VerseMinSimilarity)
    IN  r.exc # "" \/ r.ret = <<>>

\* C14: when the semantic path raises or finds nothing for a theme that is not
\* empty, search_verses_by_theme returns the substring fallback: the passages
\* whose lowercased text, translation or chapter name contains the lowercased
\* theme, in source order, cut to max_results.
C14Claim ==
    (/\ last.op = "search_verses_by_theme"
     /\ last.theme # <<>>
     /\ last.exc # "InitError"
     /\ SemanticFailed(embeddings, last.max_results))
        => /\ last.exc = ""
           /\ [k \in 1..Len(last.ret) |-> last.ret[k]["verse_id"]]
                = Truncate(SubstringFallback(last.theme, 1), last.max_results)

-----------------------------------------------------------------------------
(* C15 *)

\* C15: once the embedding service exists, search_verses_by_theme with a theme
\* that is not empty returns a list and raises nothing, whatever the embedding
\* or the similarity computation raises.
C15Claim ==
    [][(/\ last'.op = "search_verses_by_theme"
        /\ last'.theme # <<>>
        /\ embedding_service # 0)
          => /\ last'.exc = ""
             /\ DOMAIN last'.ret = 1..Len(last'.ret)]_vars

\* such a call, in which the model failed to encode the theme
C15Witness ==
    /\ last.op = "search_verses_by_theme"
    /\ last.theme # <<>>
    /\ embedding_service # 0
    /\ ~embeddings.encodes
    /\ last.exc = ""
    /\ last.ret = <<>>

-----------------------------------------------------------------------------
(* C16 *)

\* C16: search_verses_by_theme with the empty theme returns the empty list,
\* raises nothing and does not initialize the embedding service, whatever the
\* state of the embeddings.
C16Claim ==
    [][(last'.op = "search_verses_by_theme" /\ last'.theme = <<>>)
          => /\ last'.exc = ""
             /\ last'.ret = <<>>
             /\ UNCHANGED service]_vars

\* such a call on a service that was never initialized, with embeddings loaded
C16Witness ==
    /\ last.op = "search_verses_by_theme"
    /\ last.theme = <<>>
    /\ embeddings.loaded
    /\ last.ret = <<>>
    /\ embedding_service = 0

-----------------------------------------------------------------------------
(* C17 *)

\* the chapters a call of search_chapters_by_theme returned by the semantic path
SemanticResult ==
    /\ last.op = "search_chapters_by_theme"
    /\ last.path = "semantic"
    /\ last.exc = ""

\* C17: the composite score of every chapter returned by the semantic path of
\* search_chapters_by_theme lies in [0, 1], whatever the similarities of the
\* candidate passages and the passage count of the chapter, 0 included
C17Claim ==
    SemanticResult =>
        \A k \in 1..Len(last.ret) :
            /\ last.ret[k].similarity.den > 0
            /\ 0 <= last.ret[k].similarity.num
            /\ last.ret[k].similarity.num <= last.ret[k].similarity.den

\* a chapter with no known passage count and a chapter with more matching
\* passages than its count were scored, one of them above 0.95
C17Witness ==
    /\ SemanticResult
    /\ \E k \in 1..Len(last.ret) : last.ret[k].number_of_verses = 0
    /\ \E k \in 1..Len(last.ret) :
          /\ last.ret[k].verse_coverage > last.ret[k].number_of_verses
          /\ last.ret[k].number_of_verses > 0
          /\ 100 * last.ret[k].similarity.num > 95 * last.ret[k].similarity.den

-----------------------------------------------------------------------------
(* C18 *)

\* the candidate passages of chapter n in a call of search_chapters_by_theme,
\* each with its adjusted similarity
CandidatesOf(n, theme, max_results) ==
    VersesOf(FindSimilarVerses(embeddings,
                               IF max_results * 8 < 100 THEN max_results * 8 ELSE 100,
                               DefaultMinSimilarity).ret,
             n, theme, ExtractThemeKeywords(theme))

\* matching is the top of candidates: at most 3 of them, none twice, in
\* descending order, and no candidate left out has a higher similarity
TopThree(matching, candidates) ==
    /\ Len(matching) = (IF Len(candidates) < 3 THEN Len(candidates) ELSE 3)
    /\ \A i \in 1..Len(matching) :
          \E j \in 1..Len(candidates) : candidates[j] = matching[i]
    /\ \A i, j \in 1..Len(matching) :
          i < j => /\ matching[i].similarity >= matching[j].similarity
                   /\ matching[i].verse_number # matching[j].verse_number
    /\ \A j \in 1..Len(candidates) :
          (\A i \in 1..Len(matching) : matching[i] # candidates[j])
              => \A i \in 1..Len(matching) :
                    matching[i].similarity >= candidates[j].similarity

\* C18: search_chapters_by_theme returns chapters in descending order of
\* composite score, at most max_results of them, each chapter once, and the
\* matching_verses of each chapter are at most 3 passages: the chapter's
\* passages of highest adjusted similarity, in descending order
C18Claim ==
    last.op = "search_chapters_by_theme" =>
        /\ last.exc = ""
        /\ Len(last.ret) <= last.max_results
        /\ \A k \in 1..(Len(last.ret) - 1) :
              FracGeq(last.ret[k].similarity, last.ret[k + 1].similarity)
        /\ \A j, k \in 1..Len(last.ret) :
              j # k => last.ret[j].surah_number # last.ret[k].surah_number
        /\ \A k \in 1..Len(last.ret) :
              /\ Len(last.ret[k].matching_verses) <= 3
              /\ last.path = "semantic" =>
                    TopThree(last.ret[k].matching_verses,
                             CandidatesOf(last.ret[k].surah_number, last.theme,
                                          last.max_results))

\* two chapters came back; the one found first by raw similarity is second,
\* with a strictly lower score, and the other had four candidate passages, of
\* which three were kept
C18Witness ==
    /\ SemanticResult
    /\ Len(last.ret) = 2
    /\ ~FracGeq(last.ret[2].similarity, last.ret[1].similarity)
    /\ \E i \in 1..Len(Passages) :
          /\ Passages[i].surah_number = last.ret[2].surah_number
          /\ \A j \in 1..Len(Passages) : embeddings.sims[j] <= embeddings.sims[i]
    /\ last.ret[1].verse_coverage = 4
    /\ Len(last.ret[1].matching_verses) = 3

-----------------------------------------------------------------------------
(* C19 *)

\* the semantic path of the last call of search_chapters_by_theme raised (no
\* EmbeddingService could be built, or find_similar_verses raised) or found no
\* passage
ChapterSemanticFailed ==
    LET r == FindSimilarVerses(embeddings,
                               IF last.max_results * 8 < 100
                               THEN last.max_results * 8 ELSE 100,
                               DefaultMinSimilarity)
    IN  embedding_service = 0 \/ r.exc # "" \/ r.ret = <<>>

\* the fields of the chapter that contain the lowercased theme
FieldsContaining(chapter, theme) ==
    {f \in {"name", "summary", "revelation_place"} : In(Lower(theme), Lower(chapter[f]))}

\* C19: when the semantic path of search_chapters_by_theme raises or yields no
\* passages, the result is the keyword fallback: exactly the chapters whose
\* name, summary or origin place contains the lowercased theme, each with score
\* 0.5 and an explanation naming the matching fields, truncated to max_results,
\* and no exception reaches the caller
C19Claim ==
    (last.op = "search_chapters_by_theme" /\ ChapterSemanticFailed) =>
        LET expected == SelectSeq(GetAllChapters(qdrant),
                                  LAMBDA c : FieldsContaining(c, last.theme) # {})
        IN  /\ last.exc = ""
            /\ Len(last.ret) = (IF Len(expected) < last.max_results
                                THEN Len(expected) ELSE last.max_results)
            /\ \A k \in 1..Len(last.ret) :
                  /\ last.ret[k].surah_number = expected[k].surah_number
                  /\ last.ret[k].name = expected[k].name
                  /\ last.ret[k].similarity = Frac(1, 2)
                  /\ {last.ret[k].relevance_explanation.because[i] :
                         i \in 1..Len(last.ret[k].relevance_explanation.because)}
                       = FieldsContaining(expected[k], last.theme)

\* no embeddings were loaded, so find_similar_verses raised; of the two
\* chapters that match "Me" the call for one result returned the first, which
\* matches by its origin place only while the second matches by name as well
C19Witness ==
    /\ last.op = "search_chapters_by_theme"
    /\ embedding_service # 0
    /\ ~embeddings.loaded
    /\ qdrant.available
    /\ last.theme = <<"M", "e">>
    /\ last.max_results = 1
    /\ Len(last.ret) = 1
    /\ last.ret[1].relevance_explanation.because = <<"revelation_place">>
    /\ FieldsContaining(GetAllChapters(qdrant)[2], last.theme)
          = {"name", "revelation_place"}

-----------------------------------------------------------------------------
(* C20 *)

\* C20: search_chapters_by_theme accepts sort_by: with "relevance" the chapters
\* come ordered by composite score, with "id" by ascending chapter number, and a
\* chapter-search request that passes sort_by completes with a result list
C20Claim ==
    (last.op = "search_chapters" /\ last.theme # <<>>) =>
        /\ last.status = 200
        /\ last.sort_by = "relevance" =>
              \A k \in 1..(Len(last.chapters) - 1) :
                  FracGeq(last.chapters[k].similarity, last.chapters[k + 1].similarity)
        /\ last.sort_by = "id" =>
              \A k \in 1..(Len(last.chapters) - 1) :
                  last.chapters[k].surah_number < last.chapters[k + 1].surah_number

-----------------------------------------------------------------------------
(* C21 *)

\* the category with this id
CategoryOf(id) ==
    WellnessCategories[CHOOSE k \in 1..Len(WellnessCategories) :
                           WellnessCategories[k].id = id]

\* 2 per keyword of the category contained in the lowercased text, and 1 per
\* word of a theme phrase that is longer than 3 characters and contained in it
ExpectedScore(category, text) ==
    2 * Cardinality({k \in 1..Len(category.keywords) :
                        In(category.keywords[k], Lower(text))})
    + Cardinality({p \in {<<i, j>> : i \in 1..Len(category.themes), j \in 1..8} :
                      LET words == Split(Lower(category.themes[p[1]]), <<>>)
                      IN  /\ p[2] <= Len(words)
                          /\ Len(words[p[2]]) > 3
                          /\ In(words[p[2]], Lower(text))})

\* C21: detect_categories scores each category as 2 per category keyword
\* contained in the lowercased text plus 1 per theme-phrase word longer than 3
\* characters contained in it, omits the categories that score 0, and returns
\* at most 3 categories in descending order of score
C21Claim ==
    last.op = "_detect_wellness_categories" =>
        LET positive == {k \in 1..Len(WellnessCategories) :
                            ExpectedScore(WellnessCategories[k], last.user_input) > 0}
        IN  /\ Len(last.ret) = (IF Cardinality(positive) < 3
                                THEN Cardinality(positive) ELSE 3)
            /\ \A i \in 1..Len(last.ret) :
                  /\ last.ret[i].relevance_score
                       = ExpectedScore(CategoryOf(last.ret[i].id), last.user_input)
                  /\ last.ret[i].relevance_score > 0
            /\ \A i, j \in 1..Len(last.ret) :
                  i < j => /\ last.ret[i].relevance_score >= last.ret[j].relevance_score
                           /\ last.ret[i].id # last.ret[j].id
            /\ \A k \in positive :
                  (\A i \in 1..Len(last.ret) : last.ret[i].id # WellnessCategories[k].id)
                      => \A i \in 1..Len(last.ret) :
                            last.ret[i].relevance_score
                              >= ExpectedScore(WellnessCategories[k], last.user_input)

\* more than three categories scored, by keywords and by theme words, and the
\* three returned have different scores from the one that was left out
C21Witness ==
    /\ last.op = "_detect_wellness_categories"
    /\ Len(last.ret) = 3
    /\ last.ret[1].relevance_score > last.ret[3].relevance_score
    /\ Cardinality({k \in 1..Len(WellnessCategories) :
                       ExpectedScore(WellnessCategories[k], last.user_input) > 0}) > 3
    /\ last.ret[1].relevance_score % 2 = 1

-----------------------------------------------------------------------------
(* C22 *)

\* "I feel so anxious and stressed about my exam"
ExamText ==
    <<"I", " ", "f", "e", "e", "l", " ", "s", "o", " ", "a", "n",
      "x", "i", "o", "u", "s", " ", "a", "n", "d", " ", "s", "t",
      "r", "e", "s", "s", "e", "d", " ", "a", "b", "o", "u", "t",
      " ", "m", "y", " ", "e", "x", "a", "m">>

\* C22: for the text "I feel so anxious and stressed about my exam" the
\* categories returned include "anxiety_stress" among the top 3, with a
\* relevance_score above 0
C22Claim ==
    (last.op = "_detect_wellness_categories" /\ last.user_input = ExamText) =>
        \E i \in 1..Len(last.ret) :
            /\ i <= 3
            /\ last.ret[i].id = "anxiety_stress"
            /\ last.ret[i].relevance_score > 0

-----------------------------------------------------------------------------
(* C23 *)

\* the passage ids of a list of passages
VerseKeys(verses) == {VerseKey(verses[k]) : k \in 1..Len(verses)}

\* C23: get_category_verses calls the verse retriever once for each of the
\* category's first 3 theme phrases, asking for up to 3 passages each; the
\* result has no two passages with the same passage id, contains every distinct
\* retrieved passage up to the limit and has at most max_verses entries; an
\* unknown category yields an error value, not an exception
C23Claim ==
    last.op = "get_category_verses" =>
        IF \A i \in 1..Len(WellnessCategories) :
               WellnessCategories[i].id # last.category_id
        THEN last.exc = "" /\ DOMAIN last.ret = {"error"}
        ELSE last.exc = "" =>
                /\ last.searched = Truncate(CategoryOf(last.category_id).themes, 3)
                /\ \A i, j \in 1..Len(last.ret.verses) :
                       VerseKey(last.ret.verses[i]) = VerseKey(last.ret.verses[j])
                           => i = j
                /\ VerseKeys(last.ret.verses) \subseteq VerseKeys(last.all_verses)
                /\ \/ Len(last.ret.verses) = last.max_verses
                   \/ VerseKeys(last.ret.verses) = VerseKeys(last.all_verses)
                /\ Len(last.ret.verses) <= last.max_verses

-----------------------------------------------------------------------------
(* C24 *)

\* the threads that are constructing an EmbeddingService
Loading == {t \in Threads : frame[t].op = "EmbeddingService"}

\* C24: the configured model is tried once; the fallback model is tried exactly
\* once and only after the configured one failed; the construction raises
\* exactly when both attempts failed and otherwise ends with a loaded model;
\* no more than two load attempts are made
C24Claim ==
    \A t \in Loading :
        LET f == frame[t]
        IN  /\ Len(f.attempts) <= 2
            /\ Len(f.attempts) >= 1 => f.attempts[1] = f.model_name
            /\ Len(f.attempts) = 2 => f.attempts[2] = FallbackModel /\ f.failures >= 1
            /\ f.pc = "fallback" <=> (Len(f.attempts) = 1 /\ f.failures = 1)
            /\ f.pc = "raised" <=> (Len(f.attempts) = 2 /\ f.failures = 2)
            /\ f.pc = "loaded" <=>
                   (f.attempts # <<>> /\ f.failures = Len(f.attempts) - 1)
            /\ f.pc = "loaded" => f.model = f.attempts[Len(f.attempts)]
            /\ f.pc # "loaded" => f.model = ""

\* one construction has loaded the fallback model, another has raised
C24Witness ==
    \E t, u \in Loading :
        /\ frame[t].pc = "loaded" /\ frame[t].model = FallbackModel
        /\ frame[t].model_name # FallbackModel
        /\ frame[u].pc = "raised"

-----------------------------------------------------------------------------
(* C25 *)

\* a search that asked for as many results as there are records
FilteredSearch ==
    /\ last.op = "search" /\ last.exc = ""
    /\ last.top_k >= Len(metadata)

\* the 0-based rows among the results
RowsReturned == {last.ret[k].i : k \in 1..Len(last.ret)}

\* the filter's keys and values; None filters nothing
FilterKeys == IF last.filter.none THEN {} ELSE DOMAIN last.filter.dict

\* the record's value is a member of the filter's list
Contained(value, fv) == fv.list /\ value \in fv.v

\* the record's value equals the filter value, a list being equal to a list of
\* the same numbers
EqualsFilterValue(value, fv) ==
    IF fv.list
    THEN /\ value.islist
         /\ {Num(value.items[k]) : k \in 1..Len(value.items)} = fv.v
         /\ Len(value.items) = Cardinality(fv.v)
    ELSE value = fv.v

\* C25 as stated: a record passes exactly when, for every filter key, its value
\* equals the filter value or the filter value is a list that contains it; a
\* record lacking a filter key or failing any one key is excluded
C25Original ==
    FilteredSearch =>
        \A i \in 0..(Len(metadata) - 1) :
            LET meta == Deref(metadata[i + 1], shared)
            IN  i \in RowsReturned <=>
                    \A key \in FilterKeys :
                        /\ key \in DOMAIN meta
                        /\ \/ EqualsFilterValue(meta[key], last.filter.dict[key])
                           \/ Contained(meta[key], last.filter.dict[key])

\* C25: a record passes a metadata filter in search exactly when, for every
\* filter key, the filter value is a list that contains the record's value, or
\* the filter value is not a list and equals the record's value; a record
\* lacking a filter key or failing any one key is excluded
C25Claim ==
    FilteredSearch =>
        \A i \in 0..(Len(metadata) - 1) :
            LET meta == Deref(metadata[i + 1], shared)
                failing == {key \in FilterKeys :
                               \/ key \notin DOMAIN meta
                               \/ ~(\/ Contained(meta[key], last.filter.dict[key])
                                    \/ /\ ~last.filter.dict[key].list
                                       /\ meta[key] = last.filter.dict[key].v)}
            IN  i \in RowsReturned <=> failing = {}

\* a two-key filter returned one record and excluded the other, which passes
\* one of the keys and fails the other
C25Witness ==
    /\ FilteredSearch
    /\ Cardinality(FilterKeys) = 2
    /\ Cardinality(RowsReturned) = 1
    /\ \E i \in (0..(Len(metadata) - 1)) \ RowsReturned :
         LET meta == Deref(metadata[i + 1], shared)
         IN  /\ meta["surah_number"] = last.filter.dict["surah_number"].v
             /\ "tags" \in DOMAIN meta
             /\ ~Contained(meta["tags"], last.filter.dict["tags"])

-----------------------------------------------------------------------------
(* C26 *)

\* C26: whenever the store holds zero records (freshly created, after clear(),
\* after deleting every record, or after loading an empty vector file),
\* add_vectors accepts a first batch of any width, and that batch's width
\* becomes the store's dimension
C26Claim ==
    [][(last'.op = "add_vectors" /\ RowCount = 0 /\ Len(metadata) = 0)
          => (last'.exc = "" /\ dimension' = last'.width)]_vars

-----------------------------------------------------------------------------
(* C27 *)

\* the sum of a field over a list of passages
RECURSIVE SumField(_, _)
SumField(verses, field) ==
    IF verses = <<>> THEN 0 ELSE verses[1][field] + SumField(Tail(verses), field)

\* the terms of the formula for the k-th chapter returned, as integers over
\* the denominator 200000 * verse_count * passage_count (the passage count
\* taken as 1 when it is 0): similarities and contextual scores are
\* hundredths, and the score returned has a twentieth of that denominator
WeightedTerms(k) ==
    LET candidates == CandidatesOf(last.ret[k].surah_number, last.theme,
                                   last.max_results)
        verse_count == Len(candidates)
        passage_count == last.ret[k].number_of_verses
        d == IF passage_count > 0 THEN passage_count ELSE 1
        max_similarity ==
            CHOOSE m \in {candidates[i].similarity : i \in 1..verse_count} :
                \A i \in 1..verse_count : candidates[i].similarity <= m
        theme_diversity == Cardinality(last.ret[k].themes_found)
    IN  [four |-> 800 * SumField(candidates, "similarity") * d
                    + 600 * max_similarity * verse_count * d
                    + (IF passage_count = 0 THEN 0
                       ELSE IF verse_count < passage_count
                            THEN 30000 * verse_count * verse_count
                            ELSE 30000 * passage_count * verse_count)
                    + 200 * SumField(candidates, "contextual_score") * d,
         \* min(theme_diversity * 0.05, 0.05), in hundredths
         bonus |-> IF theme_diversity >= 1 THEN 5 ELSE 0,
         den |-> 200000 * verse_count * d]

\* C27 as stated: the composite score equals 0.4*avg_similarity
\* + 0.3*max_similarity + 0.15*verse_density + 0.10*avg_contextual
\* + 0.05*min(theme_diversity*0.05, 0.05)
C27Original ==
    SemanticResult =>
        \A k \in 1..Len(last.ret) :
            LET t == WeightedTerms(k)
            IN  /\ 20 * last.ret[k].similarity.den = t.den
                /\ 20 * last.ret[k].similarity.num
                       = t.four + 100 * t.bonus * (t.den \div 200000)

\* C27: the composite score of each chapter equals 0.4*avg_similarity
\* + 0.3*max_similarity + 0.15*verse_density + 0.10*avg_contextual
\* + min(theme_diversity*0.05, 0.05), with avg_similarity =
\* total_similarity/verse_count, verse_density = min(verse_count/passage_count,
\* 1.0) (0 when passage_count is 0), avg_contextual =
\* contextual_score/verse_count and theme_diversity = |themes_found|
C27Claim ==
    SemanticResult =>
        \A k \in 1..Len(last.ret) :
            LET t == WeightedTerms(k)
            IN  /\ 20 * last.ret[k].similarity.den = t.den
                /\ 20 * last.ret[k].similarity.num
                       = t.four + 2000 * t.bonus * (t.den \div 200000)

\* a chapter with themes found and more matching passages than its passage
\* count was scored, and one whose passage count is 0
C27Witness ==
    /\ SemanticResult
    /\ \E k \in 1..Len(last.ret) :
          /\ last.ret[k].themes_found # {}
          /\ last.ret[k].number_of_verses > 0
          /\ last.ret[k].verse_coverage > last.ret[k].number_of_verses
    /\ \E k \in 1..Len(last.ret) :
          /\ last.ret[k].number_of_verses = 0
          /\ last.ret[k].themes_found = {}

-----------------------------------------------------------------------------
(* C28 *)

\* the semantic path answered a search for "patience" over the two passages
PatienceResult ==
    /\ SemanticResult
    /\ last.theme = Patience
    /\ embeddings \in PatienceStates

\* the passages returned whose text contains the word, in any case
WithKeyword(k) ==
    {i \in 1..Len(last.ret[k].matching_verses) :
        In(Patience, Lower(last.ret[k].matching_verses[i].text))}

\* the composite score of the k-th chapter lies strictly between 0.3 and 0.9
BetweenBounds(k) ==
    /\ 10 * last.ret[k].similarity.num > 3 * last.ret[k].similarity.den
    /\ 10 * last.ret[k].similarity.num < 9 * last.ret[k].similarity.den

-----------------------------------------------------------------------------
(* C29 *)

\* the passages that are records of the index
IndexedVerses == {Deref(metadata[i], shared)["verse_number"] : i \in 1..Len(metadata)}

\* C29: after records were added to the "verses" store and saved, a
\* search_verses_by_theme call in a process that initializes its handles on
\* first use draws its candidates from those records: every passage returned
\* is a record of the index, and an index with records yields a result that
\* is not empty
C29Claim ==
    (/\ last.op = "search_verses_by_theme" /\ last.exc = ""
     /\ last.theme # <<>>
     /\ verse_store # 0 /\ RowCount > 0 /\ metadata # <<>>) =>
        /\ last.ret # <<>>
        /\ \A k \in 1..Len(last.ret) : last.ret[k]["verse_number"] \in IndexedVerses

-----------------------------------------------------------------------------
(* C30 *)

\* C30: while a request that constructed WellnessService(db=s) is executing
\* track_wellness_progress, the service's db remains s, under every
\* interleaving with other requests that construct WellnessService with
\* another session or with none
C30Claim ==
    \A t \in Threads :
        (/\ frame[t].op = "wellness_checkin"
         /\ frame[t].pc \in {"add", "commit", "refresh", "rollback"}) =>
            wellness_service.db = frame[t].db

====
